---- MODULE Spec2Model ----
(***************************************************************************)
(* Asset Grouping & Naming Engine of the ad renamer.                       *)
(*                                                                         *)
(* The review page (UnifiedPage.tsx, AssetTable.tsx) and the API client    *)
(* are modelled from their source.  The Group Store that serves the API    *)
(* (the Python backend) is not part of the available source; its           *)
(* operations are modelled from section 4.5 of the specification.          *)
(*                                                                         *)
(* Strings are sequences of one-character strings, so that padding,        *)
(* splitting and comparing are computed and not assumed.                   *)
(***************************************************************************)
EXTENDS Integers, Sequences, FiniteSets, TLC

VARIABLES
    store,          \* the Group Store's current GroupedAssets snapshot
    ingested,       \* the assets the analysis run was given
    lastOp,         \* the store operation applied last, and its outcome
    manualEdit,     \* the manual overrides applied so far: "regroup", "custom"
    trip,           \* bookkeeping of a regroup to the pool, for the round trip
    nops,           \* number of store operations applied so far
    analyzedGroups, \* UnifiedPage: the snapshot under review, or NoSnapshot
    handlers,       \* UnifiedPage: the review handlers that are running
    table,          \* AssetTable: the rows and the duplicate set it last rendered
    sheet,          \* the ad names handlePasteToSheet sent last
    batch,          \* the processed assets and Matcher scores handed to group()
    isSetupCollapsed, \* UnifiedPage: the setup form is collapsed, New Analysis is shown
    drive,          \* UnifiedPage: renaming, and what the table marked when it began
    setup,          \* UnifiedPage: authStatus, folderPath, loading, loadingMessage, error, timer
    editor,         \* AssetTable: editingAssetId and editValue
    called,         \* the event a component handled last and the callbacks it invoked
    picker,         \* useGooglePicker: isReady, isLoading and the openPicker calls
    toolbar         \* BulkToolbar: showApply, applyField, applyValue, selectedCount

vars == <<store, ingested, lastOp, manualEdit, trip, nops, analyzedGroups, handlers,
          table, sheet, batch, isSetupCollapsed, drive, setup, editor, called, picker,
          toolbar>>

storeVars == <<store, ingested, lastOp, manualEdit, trip, nops, batch>>
uiVars == <<editor, called, picker, toolbar>>
pageVars == <<analyzedGroups, handlers, table, sheet, isSetupCollapsed, drive, setup, uiVars>>

-----------------------------------------------------------------------------
(* Bounds of the model *)

MaxOps == 4
MaxMoves == 4
MaxIndex == 1
MaxStart == 2
MaxHandlers == 2
MaxScore == 2

Null == "null"

\* useState<GroupedAssets | null>(null): the page holds no snapshot
NoSnapshot == [null |-> TRUE]
Undefined == -1

-----------------------------------------------------------------------------
(* Strings *)

Digits == <<"0", "1", "2", "3", "4", "5", "6", "7", "8", "9">>

IsDigit(c) == \E i \in 1..10 : Digits[i] = c

DigitValue(c) == (CHOOSE i \in 1..10 : Digits[i] = c) - 1

\* String(n) for a natural number n
RECURSIVE NumberToString(_)
NumberToString(n) ==
    IF n < 10 THEN <<Digits[n + 1]>>
    ELSE NumberToString(n \div 10) \o <<Digits[(n % 10) + 1]>>

\* s.padStart(width, '0')
RECURSIVE PadStart(_, _)
PadStart(s, width) ==
    IF Len(s) >= width THEN s ELSE PadStart(<<"0">> \o s, width)

\* s.split('.').pop(): the part of s after its last dot, s itself without a dot
RECURSIVE LastSegment(_)
LastSegment(s) ==
    IF s = <<>> THEN <<>>
    ELSE IF \E i \in 1..Len(s) : s[i] = "."
         THEN LastSegment(SubSeq(s, (CHOOSE i \in 1..Len(s) : s[i] = "." /\ \A j \in 1..(i-1) : s[j] # ".") + 1, Len(s)))
         ELSE s

\* the leading digits of s, /^(\d+)/
RECURSIVE LeadingDigits(_)
LeadingDigits(s) ==
    IF s = <<>> \/ ~IsDigit(Head(s)) THEN <<>>
    ELSE <<Head(s)>> \o LeadingDigits(Tail(s))

\* parseInt(digits, 10)
RECURSIVE ParseInt(_)
ParseInt(ds) ==
    IF ds = <<>> THEN 0
    ELSE ParseInt(SubSeq(ds, 1, Len(ds) - 1)) * 10 + DigitValue(ds[Len(ds)])

Infinity == -1

\* extractNumber(filename): the leading number, or Infinity
extractNumber(filename) ==
    IF LeadingDigits(filename) = <<>> THEN Infinity
    ELSE ParseInt(LeadingDigits(filename))

\* collation rank of the characters used in names: punctuation, digits, letters
Alphabet == <<"_", ".", "0", "1", "2", "3", "4", "5", "6", "7", "8", "9",
              "a", "b", "c", "d", "e", "f", "g", "h", "i", "j", "k", "l", "m",
              "n", "o", "p", "q", "r", "s", "t", "u", "v", "w", "x", "y", "z"
              >>

CharRank(c) == CHOOSE i \in 1..Len(Alphabet) : Alphabet[i] = c

\* a.localeCompare(b): negative, zero or positive
RECURSIVE localeCompare(_, _)
localeCompare(a, b) ==
    IF a = <<>> /\ b = <<>> THEN 0
    ELSE IF a = <<>> THEN -1
    ELSE IF b = <<>> THEN 1
    ELSE IF CharRank(Head(a)) < CharRank(Head(b)) THEN -1
    ELSE IF CharRank(Head(a)) > CharRank(Head(b)) THEN 1
    ELSE localeCompare(Tail(a), Tail(b))

-----------------------------------------------------------------------------
(* Assets: the immutable records the asset analyzer supplies *)

Assets == {"s1", "f1", "f2", "q1", "q2", "q3", "q4", "q5",
           "s2", "f3", "n1", "d1", "m1"}

\* asset.name
AssetName(a) ==
    CASE a = "s1" -> <<"2", "s", ".", "j", "p", "g">>
      [] a = "f1" -> <<"2", "f", ".", "j", "p", "g">>
      [] a = "f2" -> <<"1", "f", ".", "j", "p", "g">>
      [] a = "q1" -> <<"1", "0", ".", "p", "n", "g">>
      [] a = "q2" -> <<"9", ".", "p", "n", "g">>
      [] a = "q3" -> <<"c", ".", "p", "n", "g">>
      [] a = "q4" -> <<"_", "d", ".", "p", "n", "g">>
      [] a = "q5" -> <<"9", "e", ".", "p", "n", "g">>
      [] a = "s2" -> <<"3", "s", ".", "j", "p", "g">>
      [] a = "f3" -> <<"3", "f", ".", "j", "p", "g">>
      [] a = "n1" -> <<"r", "a", "w">>
      [] a = "d1" -> <<"e", ".">>
      [] a = "m1" -> <<"a", ".", "b", ".", "p", "n", "g">>

\* asset.asset_type
AssetType(a) == IF a = "q5" THEN <<"V", "I", "D">> ELSE <<"I", "M", "G">>

\* placement inferred from the aspect ratio: story is 9:16, feed is 4:5 or 1:1
Placement(a) == IF a \in {"s1", "s2"} THEN <<"s", "t", "o", "r", "y">> ELSE <<"f", "e", "e", "d">>

\* aspect ratio 1:1
IsSquare(a) == a \in {"f2", "q1", "q2", "q3", "q4", "q5"}

GroupIds == {"g1", "g2", "g3", "g4", "g5"}

Products == {<<>>, <<"w">>}

\* the values Find & Replace writes
ReplaceValues == {<<"w">>, <<"v">>}

CustomNames == {<<"x">>, <<"0", "0", "1", "_", "I", "M", "G", "_", "f", "e", "e", "d", ".", "j", "p", "g">>}

NoCustom == <<>>

-----------------------------------------------------------------------------
(* Sequences *)

Range(s) == {s[i] : i \in 1..Len(s)}

IndexOf(s, x) == IF x \in Range(s) THEN CHOOSE i \in 1..Len(s) : s[i] = x ELSE 0

RemoveAt(s, i) == SubSeq(s, 1, i - 1) \o SubSeq(s, i + 1, Len(s))

\* inserts x so that it ends at position k + 1 (0-based index k)
InsertAt(s, k, x) == SubSeq(s, 1, k) \o <<x>> \o SubSeq(s, k + 1, Len(s))

Clamp(k, lo, hi) == IF k < lo THEN lo ELSE IF k > hi THEN hi ELSE k

\* s.includes(sub)
Contains(s, sub) ==
    \E i \in 1..(Len(s) - Len(sub) + 1) : SubSeq(s, i, i + Len(sub) - 1) = sub

IsSpace(c) == c = " "

\* s.trim()
RECURSIVE Trim(_)
Trim(s) ==
    IF s = <<>> THEN s
    ELSE IF IsSpace(s[1]) THEN Trim(Tail(s))
    ELSE IF IsSpace(s[Len(s)]) THEN Trim(SubSeq(s, 1, Len(s) - 1))
    ELSE s

-----------------------------------------------------------------------------
(* Snapshots: GroupedAssets *)

\* the confidence bundle the Confidence Model inferred for a group, in tenths:
\* a pair with no product signal, a forced single with a clear product
InferredConfidence(id) ==
    IF id = "g1" THEN [group |-> 10, product |-> 1, angle |-> 5, offer |-> 5]
    ELSE [group |-> 2, product |-> 9, angle |-> 9, offer |-> 9]

\* format_token: CAR for a carousel, else the asset type of the first asset
FormatToken(type, assets) ==
    IF type = "carousel" THEN <<"C", "A", "R">> ELSE AssetType(assets[1])

Group(id, type, assets, adNumber) ==
    [id |-> id, group_type |-> type, assets |-> assets, ad_number |-> adNumber,
     product |-> <<>>, campaign |-> <<>>, angle |-> <<>>, hook |-> <<>>,
     creator |-> <<>>, offer |-> FALSE, date |-> <<>>,
     format_token |-> FormatToken(type, assets),
     confidence |-> InferredConfidence(id)]

GroupIndex(groups, gid) ==
    IF \E i \in 1..Len(groups) : groups[i].id = gid
    THEN CHOOSE i \in 1..Len(groups) : groups[i].id = gid
    ELSE 0

\* index of the group that holds asset a, 0 when none does
HomeIndex(groups, a) ==
    IF \E i \in 1..Len(groups) : a \in Range(groups[i].assets)
    THEN CHOOSE i \in 1..Len(groups) : a \in Range(groups[i].assets)
    ELSE 0

\* id of the group that holds asset a, Null when none does
HomeId(groups, a) ==
    IF HomeIndex(groups, a) = 0 THEN Null ELSE groups[HomeIndex(groups, a)].id

GroupOf(snap, gid) == snap.groups[GroupIndex(snap.groups, gid)]

GroupIdsOf(snap) == {snap.groups[i].id : i \in 1..Len(snap.groups)}

SnapshotAssets(snap) ==
    UNION {Range(snap.groups[i].assets) : i \in 1..Len(snap.groups)} \cup Range(snap.ungrouped)

-----------------------------------------------------------------------------
(* Display order of the review surface *)

\* getFirstFilename(group)
getFirstFilename(group) ==
    IF Len(group.assets) = 0 THEN <<>> ELSE AssetName(group.assets[1])

\* the comparator of sortedGroups: negative when a is shown before b
CompareGroups(a, b) ==
    LET aName == getFirstFilename(a)
        bName == getFirstFilename(b)
        aNum == extractNumber(aName)
        bNum == extractNumber(bName)
    IN  IF aNum # Infinity /\ bNum # Infinity THEN aNum - bNum
        ELSE localeCompare(aName, bName)

\* one step of a stable sort: x goes behind every element that is not after it
RECURSIVE InsertSorted(_, _)
InsertSorted(sorted, x) ==
    IF sorted = <<>> THEN <<x>>
    ELSE IF CompareGroups(sorted[Len(sorted)], x) > 0
         THEN InsertSorted(SubSeq(sorted, 1, Len(sorted) - 1), x) \o <<sorted[Len(sorted)]>>
         ELSE sorted \o <<x>>

RECURSIVE SortFrom(_, _)
SortFrom(sorted, rest) ==
    IF rest = <<>> THEN sorted
    ELSE SortFrom(InsertSorted(sorted, Head(rest)), Tail(rest))

\* analyzedGroups.groups.slice().sort(...): a stable sort of a copy
sortedGroups(groups) == SortFrom(<<>>, groups)

\* a render whose sort works on analyzedGroups.groups itself
GroupsAfterRenderSortedInPlace(groups) == sortedGroups(groups)

\* analyzedGroups.groups after a render: sort() sorts the array it is called
\* on, and it is called on the copy slice() made
GroupsAfterRender(groups) == groups

-----------------------------------------------------------------------------
(* Namer *)

\* generateNewFileName without the placement token
generateNewFileNameNoPlacement(snap, group, a, assetIndex) ==
    IF snap.custom[a] # NoCustom THEN snap.custom[a]
    ELSE LET seg == LastSegment(AssetName(a))
             ext == IF seg = <<>> THEN <<"j", "p", "g">> ELSE seg
         IN  IF group.group_type = "carousel"
             THEN PadStart(NumberToString(group.ad_number), 4)
                    \o <<"_", "C", "A", "R", "_", "C", "a", "r", "d">>
                    \o PadStart(NumberToString(assetIndex + 1), 2) \o <<".">> \o ext
             ELSE PadStart(NumberToString(group.ad_number), 3)
                    \o <<"_">> \o AssetType(a) \o <<".">> \o ext

\* generateNewFileName that enforces the extension on a custom filename
generateNewFileNameForcesExtension(snap, group, a, assetIndex) ==
    LET seg == LastSegment(AssetName(a))
        ext == IF seg = <<>> THEN <<"j", "p", "g">> ELSE seg
    IN  IF snap.custom[a] # NoCustom
        THEN IF \E i \in 1..Len(snap.custom[a]) : snap.custom[a][i] = "."
             THEN snap.custom[a]
             ELSE snap.custom[a] \o <<".">> \o ext
        ELSE IF group.group_type = "carousel"
             THEN PadStart(NumberToString(group.ad_number), 4)
                    \o <<"_", "C", "A", "R", "_", "C", "a", "r", "d">>
                    \o PadStart(NumberToString(assetIndex + 1), 2) \o <<".">> \o ext
             ELSE PadStart(NumberToString(group.ad_number), 3)
                    \o <<"_">> \o AssetType(a) \o <<"_">> \o Placement(a) \o <<".">> \o ext

\* generateNewFileName that writes the same number for every group
generateNewFileNameFixedNumber(snap, group, a, assetIndex) ==
    IF snap.custom[a] # NoCustom THEN snap.custom[a]
    ELSE LET seg == LastSegment(AssetName(a))
             ext == IF seg = <<>> THEN <<"j", "p", "g">> ELSE seg
         IN  IF group.group_type = "carousel"
             THEN PadStart(NumberToString(1), 4)
                    \o <<"_", "C", "A", "R", "_", "C", "a", "r", "d">>
                    \o PadStart(NumberToString(assetIndex + 1), 2) \o <<".">> \o ext
             ELSE PadStart(NumberToString(1), 3)
                    \o <<"_">> \o AssetType(a) \o <<"_">> \o Placement(a) \o <<".">> \o ext

\* generateNewFileName that pads every ad number to four digits
generateNewFileNamePadsFour(snap, group, a, assetIndex) ==
    IF snap.custom[a] # NoCustom THEN snap.custom[a]
    ELSE LET seg == LastSegment(AssetName(a))
             ext == IF seg = <<>> THEN <<"j", "p", "g">> ELSE seg
         IN  IF group.group_type = "carousel"
             THEN PadStart(NumberToString(group.ad_number), 4)
                    \o <<"_", "C", "A", "R", "_", "C", "a", "r", "d">>
                    \o PadStart(NumberToString(assetIndex + 1), 2) \o <<".">> \o ext
             ELSE PadStart(NumberToString(group.ad_number), 4)
                    \o <<"_">> \o AssetType(a) \o <<"_">> \o Placement(a) \o <<".">> \o ext

\* generateNewFileName that numbers the cards from 0
generateNewFileNameZeroBased(snap, group, a, assetIndex) ==
    IF snap.custom[a] # NoCustom THEN snap.custom[a]
    ELSE LET seg == LastSegment(AssetName(a))
             ext == IF seg = <<>> THEN <<"j", "p", "g">> ELSE seg
         IN  IF group.group_type = "carousel"
             THEN PadStart(NumberToString(group.ad_number), 4)
                    \o <<"_", "C", "A", "R", "_", "C", "a", "r", "d">>
                    \o PadStart(NumberToString(assetIndex), 2) \o <<".">> \o ext
             ELSE PadStart(NumberToString(group.ad_number), 3)
                    \o <<"_">> \o AssetType(a) \o <<"_">> \o Placement(a) \o <<".">> \o ext

\* generateNewFileName(group, asset, assetIndex), assetIndex 0-based
\* a namer that numbers a group by its place in the snapshot
generateNewFileNameByPosition(snap, group, a, assetIndex) ==
    IF snap.custom[a] # NoCustom THEN snap.custom[a]
    ELSE LET seg == LastSegment(AssetName(a))
             ext == IF seg = <<>> THEN <<"j", "p", "g">> ELSE seg
             number == GroupIndex(snap.groups, group.id)
         IN  IF group.group_type = "carousel"
             THEN PadStart(NumberToString(number), 4)
                    \o <<"_", "C", "A", "R", "_", "C", "a", "r", "d">>
                    \o PadStart(NumberToString(assetIndex + 1), 2) \o <<".">> \o ext
             ELSE PadStart(NumberToString(number), 3)
                    \o <<"_">> \o AssetType(a) \o <<"_">> \o Placement(a) \o <<".">> \o ext

generateNewFileName(snap, group, a, assetIndex) ==
    IF snap.custom[a] # NoCustom THEN snap.custom[a]
    ELSE LET seg == LastSegment(AssetName(a))
             ext == IF seg = <<>> THEN <<"j", "p", "g">> ELSE seg
         IN  IF group.group_type = "carousel"
             THEN PadStart(NumberToString(group.ad_number), 4)
                    \o <<"_", "C", "A", "R", "_", "C", "a", "r", "d">>
                    \o PadStart(NumberToString(assetIndex + 1), 2) \o <<".">> \o ext
             ELSE PadStart(NumberToString(group.ad_number), 3)
                    \o <<"_">> \o AssetType(a) \o <<"_">> \o Placement(a) \o <<".">> \o ext

\* the (group, position) pairs of a list of groups
Slots(groups) ==
    UNION {{<<i, j>> : j \in 1..Len(groups[i].assets)} : i \in 1..Len(groups)}

SlotName(snap, slot) ==
    generateNewFileName(snap, snap.groups[slot[1]],
                        snap.groups[slot[1]].assets[slot[2]], slot[2] - 1)

\* filenameCount after the two loops: how often each filename was counted
filenameCount(snap) ==
    [name \in {SlotName(snap, s) : s \in Slots(snap.groups)} |->
        Cardinality({s \in Slots(snap.groups) : SlotName(snap, s) = name})]

\* a duplicate set that needs three occurrences of a filename
duplicateFilenamesFromThree(snap) ==
    {name \in DOMAIN filenameCount(snap) : filenameCount(snap)[name] > 2}

\* duplicateFilenames: the filenames whose count is more than one
duplicateFilenames(snap) ==
    {name \in DOMAIN filenameCount(snap) : filenameCount(snap)[name] > 1}

\* parts.join('_')
RECURSIVE Join(_)
Join(parts) ==
    IF parts = <<>> THEN <<>>
    ELSE IF Len(parts) = 1 THEN parts[1]
    ELSE parts[1] \o <<"_">> \o Join(Tail(parts))

\* s.replace(/__+/g, '_')
RECURSIVE CollapseUnderscores(_)
CollapseUnderscores(s) ==
    IF Len(s) < 2 THEN s
    ELSE IF s[1] = "_" /\ s[2] = "_" THEN CollapseUnderscores(Tail(s))
    ELSE <<s[1]>> \o CollapseUnderscores(Tail(s))

\* if (cond) parts.push(x)
PushIf(parts, cond, x) == IF cond THEN Append(parts, x) ELSE parts

\* generateAdName(group): the ad name the table shows
generateAdName(group) ==
    LET p0 == <<PadStart(NumberToString(group.ad_number), 3)>>
        p1 == PushIf(p0, group.campaign # <<>>, group.campaign)
        p2 == PushIf(p1, group.product # <<>>, group.product)
        p3 == Append(p2, group.format_token)
        p4 == PushIf(p3, group.angle # <<>>, group.angle)
        p5 == PushIf(p4, group.hook # <<>>, group.hook)
        p6 == PushIf(p5, group.creator # <<>>, group.creator)
        p7 == PushIf(p6, group.offer, <<"O", "f", "f", "e", "r">>)
        p8 == PushIf(p7, group.date # <<>>, group.date)
    IN  CollapseUnderscores(Join(p8))

\* the ad name handlePasteToSheet builds for a group
pasteAdName(group) ==
    LET p0 == <<PadStart(NumberToString(group.ad_number), 3)>>
        p1 == PushIf(p0, group.product # <<>>, group.product)
        p2 == Append(p1, group.format_token)
        p3 == PushIf(p2, group.hook # <<>>, group.hook)
        p4 == PushIf(p3, group.creator # <<>>, group.creator)
        p5 == PushIf(p4, group.offer, <<"C", "o", "l", "a", "b">>)
        p6 == PushIf(p5, group.date # <<>>, group.date)
    IN  CollapseUnderscores(Join(p6))

\* what AssetTable renders from the groups it is handed: per group, in display
\* order, the ad name and the filename of every asset, and the duplicate set
Render(snap) ==
    IF snap = NoSnapshot THEN [rows |-> <<>>, duplicates |-> {}]
    ELSE LET groups == sortedGroups(snap.groups)
             shown == [snap EXCEPT !.groups = groups]
         IN  [rows |-> [i \in 1..Len(groups) |->
                          [id |-> groups[i].id,
                           adName |-> generateAdName(groups[i]),
                           files |-> [j \in 1..Len(groups[i].assets) |->
                                        generateNewFileName(shown, groups[i],
                                                            groups[i].assets[j], j - 1)]]],
              duplicates |-> duplicateFilenames(shown)]

-----------------------------------------------------------------------------
(* Group Store / Mutator: each operation maps a snapshot to                *)
(* [ok, snap]; ok = FALSE is the NotFound failure, with snap the input.    *)

CarouselMin == 5
CarouselMax == 10

NotFound(snap) == [ok |-> FALSE, snap |-> snap]

Done(snap) == [ok |-> TRUE, snap |-> snap]

QualifiesAsCarousel(assets) ==
    /\ Len(assets) >= CarouselMin
    /\ Len(assets) <= CarouselMax
    /\ \A i \in 1..Len(assets) : IsSquare(assets[i])

\* a source type that is never revised
SourceTypeKeepsType(type, assets) == type

\* the type of the group an asset was taken out of
SourceType(type, assets) == IF Len(assets) = 1 THEN "single" ELSE type

\* a destination type that promotes every group of three or more assets
DestinationTypeAutoPromotes(type, assets) ==
    IF Len(assets) >= 3 THEN "carousel" ELSE type

\* the type of the group an asset was put into
DestinationType(type, assets) ==
    IF QualifiesAsCarousel(assets) THEN "carousel" ELSE type

\* the groups without asset a: an emptied group is removed, a group left with
\* one asset is retyped to single
RECURSIVE WithoutAsset(_, _)
WithoutAsset(groups, a) ==
    IF groups = <<>> THEN <<>>
    ELSE LET g == Head(groups)
             i == IndexOf(g.assets, a)
             left == RemoveAt(g.assets, i)
         IN  IF i = 0 THEN <<g>> \o WithoutAsset(Tail(groups), a)
             ELSE IF left = <<>> THEN WithoutAsset(Tail(groups), a)
             ELSE <<[g EXCEPT !.assets = left,
                              !.group_type = SourceType(g.group_type, left)]>>
                    \o WithoutAsset(Tail(groups), a)

WithoutElement(s, a) == IF IndexOf(s, a) = 0 THEN s ELSE RemoveAt(s, IndexOf(s, a))

\* an insert position that ignores destination_index
InsertPositionAppends(assets, destinationIndex) == Len(assets)

\* the position an asset is inserted at: destination_index clamped, default append
InsertPosition(assets, destinationIndex) ==
    IF destinationIndex = Undefined THEN Len(assets)
    ELSE Clamp(destinationIndex, 0, Len(assets))

\* a regroup that inserts the asset without taking it out of its current home
RegroupAssetCopies(snap, a, target, destinationIndex) ==
    LET t == IF target = Null THEN 0 ELSE GroupIndex(snap.groups, target)
    IN  IF ~(a \in SnapshotAssets(snap)) \/ (target # Null /\ t = 0)
        THEN NotFound(snap)
        ELSE IF target = Null
        THEN Done([snap EXCEPT !.ungrouped = Append(snap.ungrouped, a)])
        ELSE Done([snap EXCEPT !.groups[t].assets =
                     InsertAt(snap.groups[t].assets,
                              InsertPosition(snap.groups[t].assets, destinationIndex), a)])

\* a regroup that makes a new single group of an asset sent to no group
RegroupAssetCreatesGroup(snap, a, target, destinationIndex) ==
    LET h == HomeIndex(snap.groups, a)
        t == IF target = Null THEN 0 ELSE GroupIndex(snap.groups, target)
    IN  IF (h = 0 /\ a \notin Range(snap.ungrouped)) \/ (target # Null /\ t = 0)
        THEN NotFound(snap)
        ELSE IF target = Null
        THEN Done([snap EXCEPT !.groups = Append(WithoutAsset(snap.groups, a),
                                                 Group("g3", "single", <<a>>, 3)),
                               !.ungrouped = WithoutElement(snap.ungrouped, a)])
        ELSE IF t = h
        THEN LET g == snap.groups[t]
                 left == WithoutElement(g.assets, a)
                 assets == InsertAt(left, InsertPosition(left, destinationIndex), a)
             IN  Done([snap EXCEPT !.groups[t].assets = assets])
        ELSE LET groups1 == WithoutAsset(snap.groups, a)
                 t1 == GroupIndex(groups1, target)
                 g == groups1[t1]
                 assets == InsertAt(g.assets, InsertPosition(g.assets, destinationIndex), a)
             IN  Done([snap EXCEPT
                        !.groups = [groups1 EXCEPT ![t1] =
                                      [g EXCEPT !.assets = assets,
                                                !.group_type = DestinationType(g.group_type, assets)]],
                        !.ungrouped = WithoutElement(snap.ungrouped, a)])

\* regroup(asset_id, target_group_id | null, destination_index?)
RegroupAsset(snap, a, target, destinationIndex) ==
    LET h == HomeIndex(snap.groups, a)
        t == IF target = Null THEN 0 ELSE GroupIndex(snap.groups, target)
    IN  IF (h = 0 /\ a \notin Range(snap.ungrouped)) \/ (target # Null /\ t = 0)
        THEN NotFound(snap)
        ELSE IF target = Null
        THEN Done([snap EXCEPT !.groups = WithoutAsset(snap.groups, a),
                               !.ungrouped = Append(WithoutElement(snap.ungrouped, a), a)])
        ELSE IF t = h
        THEN LET g == snap.groups[t]
                 left == WithoutElement(g.assets, a)
                 assets == InsertAt(left, InsertPosition(left, destinationIndex), a)
             IN  Done([snap EXCEPT !.groups[t].assets = assets])
        ELSE LET groups1 == WithoutAsset(snap.groups, a)
                 t1 == GroupIndex(groups1, target)
                 g == groups1[t1]
                 assets == InsertAt(g.assets, InsertPosition(g.assets, destinationIndex), a)
             IN  Done([snap EXCEPT
                        !.groups = [groups1 EXCEPT ![t1] =
                                      [g EXCEPT !.assets = assets,
                                                !.group_type = DestinationType(g.group_type, assets)]],
                        !.ungrouped = WithoutElement(snap.ungrouped, a)])

\* a reorder that does not clamp: past the end the asset is not put back
ReorderAssetDrops(snap, gid, a, newIndex) ==
    LET t == GroupIndex(snap.groups, gid)
    IN  IF t = 0 THEN NotFound(snap)
        ELSE IF IndexOf(snap.groups[t].assets, a) = 0 THEN NotFound(snap)
        ELSE LET left == WithoutElement(snap.groups[t].assets, a)
             IN  Done([snap EXCEPT !.groups[t].assets =
                         IF newIndex > Len(left) THEN left ELSE InsertAt(left, newIndex, a)])

\* a reorder that swaps the asset with the one at new_index
ReorderAssetSwaps(snap, gid, a, newIndex) ==
    LET t == GroupIndex(snap.groups, gid)
    IN  IF t = 0 THEN NotFound(snap)
        ELSE IF IndexOf(snap.groups[t].assets, a) = 0 THEN NotFound(snap)
        ELSE LET assets == snap.groups[t].assets
                 from == IndexOf(assets, a)
                 to == Clamp(newIndex, 0, Len(assets) - 1) + 1
             IN  Done([snap EXCEPT !.groups[t].assets =
                         [assets EXCEPT ![from] = assets[to], ![to] = a]])

\* reorder(group_id, asset_id, new_index)
ReorderAsset(snap, gid, a, newIndex) ==
    LET t == GroupIndex(snap.groups, gid)
    IN  IF t = 0 THEN NotFound(snap)
        ELSE IF IndexOf(snap.groups[t].assets, a) = 0 THEN NotFound(snap)
        ELSE LET left == WithoutElement(snap.groups[t].assets, a)
             IN  Done([snap EXCEPT !.groups[t].assets =
                         InsertAt(left, Clamp(newIndex, 0, Len(left)), a)])

\* a renumber that stops before the last group of the display order
RenumberPartial(snap, startNumber) ==
    LET order == sortedGroups(snap.groups)
    IN  Done([snap EXCEPT !.groups =
                [i \in 1..Len(snap.groups) |->
                    IF GroupIndex(order, snap.groups[i].id) = Len(order)
                    THEN snap.groups[i]
                    ELSE [snap.groups[i] EXCEPT !.ad_number =
                            startNumber + GroupIndex(order, snap.groups[i].id) - 1]]])

\* a renumber that walks the groups in the store's order
RenumberInStoreOrder(snap, startNumber) ==
    Done([snap EXCEPT !.groups =
            [i \in 1..Len(snap.groups) |->
                [snap.groups[i] EXCEPT !.ad_number = startNumber + i - 1]]])

\* renumber(start_number): one pass over the groups in display order
Renumber(snap, startNumber) ==
    LET order == sortedGroups(snap.groups)
    IN  Done([snap EXCEPT !.groups =
                [i \in 1..Len(snap.groups) |->
                    [snap.groups[i] EXCEPT !.ad_number =
                        startNumber + GroupIndex(order, snap.groups[i].id) - 1]]])

\* an updateFields that marks an edited product as certain
UpdateGroupRaisesConfidence(snap, gid, value) ==
    LET t == GroupIndex(snap.groups, gid)
    IN  IF t = 0 THEN NotFound(snap)
        ELSE Done([snap EXCEPT !.groups[t].product = value,
                               !.groups[t].confidence.product = 10])

\* updateFields(group_id, {product: value})
UpdateGroup(snap, gid, value) ==
    LET t == GroupIndex(snap.groups, gid)
    IN  IF t = 0 THEN NotFound(snap)
        ELSE Done([snap EXCEPT !.groups[t].product = value])

\* updateAsset(group_id, asset_id, {custom_filename: name})
UpdateAsset(snap, gid, a, name) ==
    LET t == GroupIndex(snap.groups, gid)
    IN  IF t = 0 THEN NotFound(snap)
        ELSE IF IndexOf(snap.groups[t].assets, a) = 0 THEN NotFound(snap)
        ELSE Done([snap EXCEPT !.custom[a] = name])

\* a bulkReplace that overwrites the field in every group
BulkReplaceEverywhere(snap, find, replace) ==
    Done([snap EXCEPT !.groups =
            [i \in 1..Len(snap.groups) |-> [snap.groups[i] EXCEPT !.product = replace]]])

\* bulkReplace("product", find, replace)
BulkReplace(snap, find, replace) ==
    Done([snap EXCEPT !.groups =
            [i \in 1..Len(snap.groups) |->
                IF snap.groups[i].product = find
                THEN [snap.groups[i] EXCEPT !.product = replace]
                ELSE snap.groups[i]]])

\* bulkApply(group_ids, "product", value)
BulkApply(snap, gids, value) ==
    IF \E gid \in gids : GroupIndex(snap.groups, gid) = 0 THEN NotFound(snap)
    ELSE Done([snap EXCEPT !.groups =
                 [i \in 1..Len(snap.groups) |->
                     IF snap.groups[i].id \in gids
                     THEN [snap.groups[i] EXCEPT !.product = value]
                     ELSE snap.groups[i]]])

-----------------------------------------------------------------------------
(* Grouper results: the snapshots an analysis run hands to the store.      *)
(* Pairs are standard groups, carousels have 5 to 10 square cards, every   *)
(* other asset is a single; ad numbers count up from the offset 1; the     *)
(* ungrouped pool is empty and no asset has a custom filename.             *)

Snapshot(groups, assets) ==
    [groups |-> groups, ungrouped |-> <<>>, custom |-> [a \in assets |-> NoCustom]]

PairAndSingle ==
    Snapshot(<<Group("g1", "standard", <<"s1", "f1">>, 1),
               Group("g2", "single", <<"f2">>, 2)>>,
             {"s1", "f1", "f2"})

CarouselAndSquare ==
    Snapshot(<<Group("g1", "carousel", <<"q1", "q2", "q3", "q4", "q5">>, 1),
               Group("g2", "single", <<"f2">>, 2)>>,
             {"q1", "q2", "q3", "q4", "q5", "f2"})

CarouselAndSingle ==
    Snapshot(<<Group("g1", "carousel", <<"q1", "q2", "q3", "q4", "q5">>, 1),
               Group("g2", "single", <<"s1">>, 2)>>,
             {"q1", "q2", "q3", "q4", "q5", "s1"})

GrouperResults == {PairAndSingle}

-----------------------------------------------------------------------------
(* Grouper: group(assets, matcher), steps 2 to 4 of its algorithm.  A batch *)
(* is the assets in ingestion order with the Matcher's score of every       *)
(* story and feed asset of it; a score below MatchThreshold is no match.    *)
(* Batches hold fewer than CarouselMin square assets, so step 1 finds no    *)
(* carousel.                                                                *)

MatchThreshold == 1

NoBatch == [assets |-> <<>>, score |-> <<>>]

StoriesOf(assets) == {a \in Range(assets) : Placement(a) = <<"s", "t", "o", "r", "y">>}

FeedsOf(assets) == Range(assets) \ StoriesOf(assets)

\* pair p is matched before pair q: the higher score first, equal scores in
\* ingestion order
Precedes(b, p, q) ==
    \/ b.score[p] > b.score[q]
    \/ /\ b.score[p] = b.score[q]
       /\ \/ IndexOf(b.assets, p[1]) < IndexOf(b.assets, q[1])
          \/ p[1] = q[1] /\ IndexOf(b.assets, p[2]) < IndexOf(b.assets, q[2])

\* a choice of the next pair that goes by ingestion order alone
BestPairByIngestion(b, candidates) ==
    CHOOSE p \in candidates :
        \A q \in candidates \ {p} :
            \/ IndexOf(b.assets, p[1]) < IndexOf(b.assets, q[1])
            \/ p[1] = q[1] /\ IndexOf(b.assets, p[2]) < IndexOf(b.assets, q[2])

\* the pair greedy matching takes next
BestPair(b, candidates) ==
    CHOOSE p \in candidates : \A q \in candidates \ {p} : Precedes(b, p, q)

\* step 2: greedy highest-score-first matching of the remaining stories and feeds
RECURSIVE MatchPairs(_, _, _)
MatchPairs(b, stories, feeds) ==
    LET candidates == {p \in stories \X feeds : b.score[p] >= MatchThreshold}
    IN  IF candidates = {} THEN {}
        ELSE LET best == BestPair(b, candidates)
             IN  {best} \cup MatchPairs(b, stories \ {best[1]}, feeds \ {best[2]})

GroupIdAt(i) == <<"g1", "g2", "g3", "g4", "g5">>[i]

\* steps 2 to 4 over the assets from position i on: a pair becomes a standard
\* group where its first ingested asset stands, an unmatched asset a single
RECURSIVE GroupsFrom(_, _, _, _)
GroupsFrom(b, pairs, i, made) ==
    IF i > Len(b.assets) THEN made
    ELSE LET a == b.assets[i]
             mine == {p \in pairs : a \in {p[1], p[2]}}
             n == Len(made) + 1
         IN  IF mine = {}
             THEN GroupsFrom(b, pairs, i + 1,
                             Append(made, Group(GroupIdAt(n), "single", <<a>>, n)))
             ELSE LET p == CHOOSE q \in mine : TRUE
                      partner == IF a = p[1] THEN p[2] ELSE p[1]
                  IN  IF IndexOf(b.assets, partner) < i
                      THEN GroupsFrom(b, pairs, i + 1, made)
                      ELSE GroupsFrom(b, pairs, i + 1,
                                      Append(made, Group(GroupIdAt(n), "standard",
                                                         <<p[1], p[2]>>, n)))

\* group(assets, matcher), with the ad number offset 1
groupAssets(b) ==
    Snapshot(GroupsFrom(b, MatchPairs(b, StoriesOf(b.assets), FeedsOf(b.assets)), 1, <<>>),
             Range(b.assets))

CarouselResults == {CarouselAndSquare, CarouselAndSingle}

NoOp ==
    [kind |-> "none", ok |-> TRUE, target |-> Null, start |-> 0, resolved |-> TRUE,
     asset |-> Null, index |-> 0]

\* an operation's record: its kind, the group it names, renumber's start number
\* and whether every id it names resolves in the snapshot it is applied to
Op(kind, target, start, resolved) ==
    [kind |-> kind, ok |-> TRUE, target |-> target, start |-> start, resolved |-> resolved,
     asset |-> Null, index |-> 0]

\* the record of an operation on one asset: the asset and the index it names
OpOn(kind, target, a, k, resolved) ==
    [Op(kind, target, 0, resolved) EXCEPT !.asset = a, !.index = k]

\* the record of a bulkReplace: the value it looks for and the one it writes
OpReplace(find, replace) ==
    [kind |-> "bulkReplace", ok |-> TRUE, target |-> Null, start |-> 0, resolved |-> TRUE,
     asset |-> Null, index |-> 0, find |-> find, replace |-> replace]

HasGroup(snap, gid) == GroupIndex(snap.groups, gid) # 0

HasAsset(snap, a) == a \in SnapshotAssets(snap)

IsMember(snap, gid, a) ==
    HasGroup(snap, gid) /\ a \in Range(snap.groups[GroupIndex(snap.groups, gid)].assets)

NoTrip == [state |-> "none"]

\* useState(false) of renaming: no rename request is running
NoRename == [renaming |-> FALSE, duplicates |-> {}]

\* the setup state of a page that shows the analysis of a local folder:
\* signed out, nothing loading, no error, no progress timer
LocalPath == <<"/", "a">>

\* a local folder that does not exist
MissingPath == <<"/", "b">>

\* a local folder of a Windows machine: C:\Users\me\ads\batch_01
WindowsPath ==
    <<"C", ":", "\\", "U", "s", "e", "r", "s", "\\", "m", "e", "\\", "a",
      "d", "s", "\\", "b", "a", "t", "c", "h", "_", "0", "1">>

\* https://drive.google.com/x
DriveLink ==
    <<"h", "t", "t", "p", "s", ":", "/", "/", "d", "r", "i", "v", "e", ".",
      "g", "o", "o", "g", "l", "e", ".", "c", "o", "m", "/", "x">>

\* the id of a Drive folder nobody shared
FolderId ==
    <<"1", "A", "b", "C", "d", "E", "f", "G", "h", "I", "j", "K", "l", "M",
      "n", "O", "p", "Q", "r", "S", "t", "U", "v", "W", "x">>

BlankPath == <<" ", " ">>

\* what the user types into the folder path input
FolderPaths == {BlankPath, LocalPath, MissingPath, WindowsPath, DriveLink, FolderId}

\* the paths that name a folder of a local disk
LocalPaths == {LocalPath, MissingPath, WindowsPath}

\* the folders the backend can read
ExistingFolders == {LocalPath, WindowsPath, DriveLink}

AfterAnalysis ==
    [authenticated |-> FALSE, folderPath |-> LocalPath, loading |-> FALSE,
     loadingMessage |-> "", error |-> Null, messageInterval |-> FALSE,
     progressMessages |-> <<>>, messageIndex |-> 0]

\* useState(null) of editingAssetId, useState('') of editValue
NoEdit == [editingAssetId |-> Null, editValue |-> <<>>]

\* no component has handled an event
NoInput == [null |-> TRUE]

NoCalls == [event |-> "none", input |-> NoInput, calls |-> <<>>]

\* useState(false) of isLoading and isReady, no openPicker call made
NoPicker ==
    [apiKey |-> FALSE, clientId |-> FALSE, isReady |-> FALSE, isLoading |-> FALSE,
     calls |-> <<>>]

\* useState of BulkToolbar: the panel closed, field angle, value ProductFocus
ClosedToolbar ==
    [showApply |-> FALSE, applyField |-> "angle", applyValue |-> "ProductFocus",
     selectedCount |-> 0]

InitFrom(results) ==
    /\ store \in results
    /\ ingested = DOMAIN store.custom
    /\ lastOp = NoOp
    /\ manualEdit = {}
    /\ trip = NoTrip
    /\ nops = 0
    /\ analyzedGroups = store
    /\ handlers = <<>>
    /\ table = Render(store)
    /\ sheet = <<>>
    /\ batch = NoBatch
    /\ isSetupCollapsed = TRUE
    /\ drive = NoRename
    /\ setup = AfterAnalysis
    /\ editor = NoEdit
    /\ called = NoCalls
    /\ picker = NoPicker
    /\ toolbar = ClosedToolbar

Init == InitFrom(GrouperResults)

InitCarousel == InitFrom(CarouselResults)

-----------------------------------------------------------------------------
(* The store as a state machine: one action per operation *)

\* ids a request can name: those of the snapshot and one that does not resolve
AssetIds == ingested \cup {"zz"}

TargetIds == {store.groups[i].id : i \in 1..Len(store.groups)} \cup {"g9"}

Indexes == 0..MaxIndex

\* the round trip bookkeeping of a regroup of asset a to target
TripAfter(a, target, destinationIndex, result) ==
    LET h == HomeIndex(store.groups, a)
    IN  IF result.ok /\ target = Null /\ h # 0
        THEN [state |-> "out", asset |-> a, group |-> store.groups[h].id,
              index |-> IndexOf(store.groups[h].assets, a) - 1,
              before |-> store.groups]
        ELSE IF trip.state = "out" /\ a = trip.asset /\ target = trip.group
                /\ destinationIndex = trip.index
        THEN [state |-> "back", ok |-> result.ok, group |-> trip.group,
              before |-> trip.before]
        ELSE NoTrip

Applied(bound, result, op) ==
    /\ nops < bound
    /\ nops' = nops + 1
    /\ store' = result.snap
    /\ lastOp' = [op EXCEPT !.ok = result.ok]
    /\ UNCHANGED <<ingested, batch, pageVars>>

RegroupWithin(bound) ==
    \E a \in AssetIds :
    \E target \in IF a \in ingested THEN TargetIds \cup {Null} ELSE {Null} :
    \E k \in IF a \in ingested /\ HasGroup(store, target) THEN Indexes \cup {Undefined} ELSE {Undefined} :
        LET result == RegroupAsset(store, a, target, k)
        IN  /\ target # HomeId(store.groups, a)
            /\ Applied(bound, result,
                       OpOn("regroup", target, a, k,
                            HasAsset(store, a) /\ (target = Null \/ HasGroup(store, target))))
            /\ manualEdit' = IF result.ok THEN manualEdit \cup {"regroup"} ELSE manualEdit
            /\ trip' = TripAfter(a, target, k, result)

ReorderWithin(bound) ==
    \E gid \in TargetIds, a \in AssetIds :
    \E k \in IF IsMember(store, gid, a) THEN Indexes ELSE {0} :
        /\ Applied(bound, ReorderAsset(store, gid, a, k),
                   OpOn("reorder", gid, a, k, IsMember(store, gid, a)))
        /\ trip' = NoTrip
        /\ UNCHANGED manualEdit

Regroup == RegroupWithin(MaxOps)

Reorder == ReorderWithin(MaxOps)

RenumberGroups ==
    \E n \in 1..MaxStart :
        /\ Applied(MaxOps, Renumber(store, n), Op("renumber", Null, n, TRUE))
        /\ trip' = NoTrip
        /\ UNCHANGED manualEdit

UpdateFields ==
    \E gid \in TargetIds, value \in Products :
        /\ Applied(MaxOps, UpdateGroup(store, gid, value),
                   Op("updateFields", gid, 0, HasGroup(store, gid)))
        /\ trip' = NoTrip
        /\ UNCHANGED manualEdit

SetCustomFilename ==
    \E gid \in TargetIds, a \in AssetIds, name \in CustomNames :
        LET result == UpdateAsset(store, gid, a, name)
        IN  /\ Applied(MaxOps, result, Op("updateAsset", gid, 0, IsMember(store, gid, a)))
            /\ manualEdit' = IF result.ok THEN manualEdit \cup {"custom"} ELSE manualEdit
            /\ trip' = NoTrip

ReplaceAll ==
    \E find \in Products, replace \in ReplaceValues :
        /\ Applied(MaxOps, BulkReplace(store, find, replace), OpReplace(find, replace))
        /\ trip' = NoTrip
        /\ UNCHANGED manualEdit

ApplyToSelected ==
    \E gids \in SUBSET TargetIds, value \in Products \ {<<>>} :
        /\ gids # {}
        /\ Applied(MaxOps, BulkApply(store, gids, value),
                   Op("bulkApply", Null, 0, \A gid \in gids : HasGroup(store, gid)))
        /\ trip' = NoTrip
        /\ UNCHANGED manualEdit

Next ==
    \/ Regroup
    \/ Reorder
    \/ RenumberGroups
    \/ UpdateFields
    \/ SetCustomFilename
    \/ ReplaceAll
    \/ ApplyToSelected

Spec == Init /\ [][Next]_vars

\* a user arranging carousel cards: regroup and reorder only
MoveCard == RegroupWithin(MaxMoves)

ReorderCard == ReorderWithin(MaxMoves)

NextCarousel == MoveCard \/ ReorderCard

SpecCarousel == InitCarousel /\ [][NextCarousel]_vars

-----------------------------------------------------------------------------
(* The review page: UnifiedPage's handlers.  A handler sends a request,    *)
(* the store serves it, and the handler resumes with the response; between *)
(* these steps other handlers run.  fetchJson throws on a response that is *)
(* not ok, and every handler catches that and logs it.                     *)

Handler(kind, target, asset, index, value, start, pending) ==
    [kind |-> kind, pc |-> "request", call |-> "mutate",
     target |-> target, asset |-> asset, index |-> index, value |-> value,
     start |-> start, pending |-> pending,
     ok |-> TRUE, data |-> NoSnapshot, changed |-> FALSE]

\* the ids and assets the page can name are those of the snapshot it shows
PageGroupIds == IF analyzedGroups = NoSnapshot THEN {} ELSE GroupIdsOf(analyzedGroups)

PageIdList ==
    IF analyzedGroups = NoSnapshot THEN <<>>
    ELSE [i \in 1..Len(analyzedGroups.groups) |-> analyzedGroups.groups[i].id]

PageMembers(gid) == Range(GroupOf(analyzedGroups, gid).assets)

Call(fn, args) == [fn |-> fn, args |-> args]

\* the component handled event with input and invoked calls
Handled(event, input, calls) ==
    called' = [event |-> event, input |-> input, calls |-> calls]

\* an async handler of the page is called: its request is on the way
Sent(h) ==
    /\ Len(handlers) < MaxHandlers
    /\ handlers' = Append(handlers, h)
    /\ UNCHANGED <<storeVars, analyzedGroups, table, sheet, isSetupCollapsed, drive>>

Started(h) == Sent(h) /\ UNCHANGED <<setup, uiVars>>

\* handleGroupUpdate(groupId, {product: value})
handleGroupUpdate ==
    /\ analyzedGroups # NoSnapshot
    /\ \E gid \in PageGroupIds, value \in Products :
        Started(Handler("groupUpdate", gid, Null, 0, value, 0, <<>>))

\* handleBulkApply("product", value): one updateGroup per group of the page's
\* snapshot, one after the other, then getGroups
handleBulkApply ==
    /\ analyzedGroups # NoSnapshot
    /\ \E value \in Products \ {<<>>} :
        Started([Handler("bulkApply", Null, Null, 0, value, 0, PageIdList)
                    EXCEPT !.call = IF PageIdList = <<>> THEN "getGroups" ELSE "mutate"])

\* handleRenumber(startNumber); the toolbar that calls it is rendered only
\* while the page holds a snapshot
handleRenumber ==
    /\ analyzedGroups # NoSnapshot
    /\ \E n \in 1..MaxStart :
        Started(Handler("renumber", Null, Null, 0, <<>>, n, <<>>))

\* handleRegroupAsset(assetId, targetGroupId, destinationIndex), as handleDragEnd
\* calls it: an asset of one group dropped on another group
handleRegroupAsset ==
    /\ analyzedGroups # NoSnapshot
    /\ \E src \in PageGroupIds, target \in PageGroupIds, k \in Indexes :
        /\ src # target
        /\ \E a \in PageMembers(src) :
            Started(Handler("regroup", target, a, k, <<>>, 0, <<>>))

\* handleReorderAsset(groupId, assetId, newIndex)
handleReorderAsset ==
    /\ analyzedGroups # NoSnapshot
    /\ \E gid \in PageGroupIds, k \in Indexes :
        \E a \in PageMembers(gid) :
            Started(Handler("reorder", gid, a, k, <<>>, 0, <<>>))

\* handleUpdateAssetFilename(groupId, assetId, customFilename)
handleUpdateAssetFilename ==
    /\ analyzedGroups # NoSnapshot
    /\ \E gid \in PageGroupIds, name \in CustomNames :
        \E a \in PageMembers(gid) :
            Started(Handler("assetFilename", gid, a, 0, name, 0, <<>>))

\* what the store answers to the request of handler h
Served(h) ==
    IF h.call = "getGroups" THEN Done(store)
    ELSE IF h.call = "analyze"
    THEN IF h.value \in ExistingFolders THEN Done(PairAndSingle) ELSE NotFound(store)
    ELSE CASE h.kind = "groupUpdate" -> UpdateGroup(store, h.target, h.value)
           [] h.kind = "bulkApply" -> UpdateGroup(store, Head(h.pending), h.value)
           [] h.kind = "renumber" -> Renumber(store, h.start)
           [] h.kind = "regroup" -> RegroupAsset(store, h.asset, h.target, h.index)
           [] h.kind = "reorder" -> ReorderAsset(store, h.target, h.asset, h.index)
           [] h.kind = "assetFilename" -> UpdateAsset(store, h.target, h.asset, h.value)

\* the response body is read only where it is a GroupedAssets
ReturnsSnapshot(h) == h.call \in {"getGroups", "analyze"} \/ h.kind = "regroup"

\* the store serves the request of handler i
Serve ==
    \E i \in 1..Len(handlers) :
        LET h == handlers[i]
            result == Served(h)
        IN  /\ h.pc = "request"
            /\ store' = result.snap
            /\ handlers' = [handlers EXCEPT ![i] =
                    [h EXCEPT !.pc = "response",
                              !.ok = result.ok,
                              !.data = IF result.ok /\ ReturnsSnapshot(h) THEN result.snap ELSE NoSnapshot,
                              !.changed = h.changed \/ result.snap # store]]
            /\ UNCHANGED <<ingested, batch, lastOp, manualEdit, trip, nops, analyzedGroups,
                           table, sheet, isSetupCollapsed, drive, setup, uiVars>>

\* an end of handleSubmit that leaves loading set when the analysis failed
AfterAnalyzeStaysLoading(s, h) ==
    IF h.call # "analyze" THEN s
    ELSE IF h.ok
    THEN [s EXCEPT !.messageInterval = FALSE, !.loading = FALSE, !.loadingMessage = ""]
    ELSE [s EXCEPT !.messageInterval = FALSE, !.error = "Analysis failed"]

\* the end of handleSubmit: clearInterval in try and in catch, setError in
\* catch, setLoading(false) and setLoadingMessage('') in finally
AfterAnalyze(s, h) ==
    IF h.call # "analyze" THEN s
    ELSE [s EXCEPT !.messageInterval = FALSE,
                   !.error = IF h.ok THEN s.error ELSE "Analysis failed",
                   !.loading = FALSE,
                   !.loadingMessage = ""]

\* handler i resumes with the response
Resume ==
    \E i \in 1..Len(handlers) :
        LET h == handlers[i]
        IN  /\ h.pc = "response"
            /\ IF ~h.ok
               THEN /\ handlers' = [handlers EXCEPT ![i] = [h EXCEPT !.pc = "failed"]]
                    /\ UNCHANGED <<analyzedGroups, table, isSetupCollapsed>>
               ELSE IF ReturnsSnapshot(h)
               THEN /\ analyzedGroups' = [h.data EXCEPT !.groups = GroupsAfterRender(h.data.groups)]
                    /\ table' = Render(h.data)
                    /\ isSetupCollapsed' = (h.call = "analyze" \/ isSetupCollapsed)
                    /\ handlers' = [handlers EXCEPT ![i] = [h EXCEPT !.pc = "done", !.data = NoSnapshot]]
               ELSE IF h.kind = "bulkApply" /\ Len(h.pending) > 1
               THEN /\ handlers' = [handlers EXCEPT ![i] =
                            [h EXCEPT !.pc = "request", !.pending = Tail(h.pending)]]
                    /\ UNCHANGED <<analyzedGroups, table, isSetupCollapsed>>
               ELSE /\ handlers' = [handlers EXCEPT ![i] =
                            [h EXCEPT !.pc = "request", !.call = "getGroups", !.pending = <<>>]]
                    /\ UNCHANGED <<analyzedGroups, table, isSetupCollapsed>>
            /\ setup' = AfterAnalyze(setup, h)
            /\ UNCHANGED <<storeVars, sheet, drive, uiVars>>

\* handleNewAnalysis: the New Analysis button, shown while the setup form is
\* collapsed, resets the page; the review section is rendered only while
\* analyzedGroups is set
handleNewAnalysis ==
    /\ isSetupCollapsed
    /\ isSetupCollapsed' = FALSE
    /\ analyzedGroups' = NoSnapshot
    /\ table' = Render(NoSnapshot)
    /\ setup' = [setup EXCEPT !.folderPath = <<>>, !.error = Null]
    /\ UNCHANGED <<storeVars, handlers, sheet, drive, uiVars>>

\* onChange of the folder path input, which is disabled while loading
setFolderPath ==
    /\ ~isSetupCollapsed
    /\ ~setup.loading
    /\ \E path \in FolderPaths :
        /\ path # setup.folderPath
        /\ setup' = [setup EXCEPT !.folderPath = path]
    /\ UNCHANGED <<storeVars, analyzedGroups, handlers, table, sheet, isSetupCollapsed,
                   drive, uiVars>>

\* isDrivePath of handleSubmit
isDrivePath(folderPath) ==
    \/ Contains(folderPath, <<"d", "r", "i", "v", "e", ".", "g", "o", "o", "g", "l", "e",
                              ".", "c", "o", "m">>)
    \/ /\ Len(folderPath) > 20
       /\ ~(Len(folderPath) > 0 /\ folderPath[1] = "/")
       /\ ~Contains(folderPath, <<" ">>)

\* progressMessages of handleSubmit
progressMessages(drivePath) ==
    IF drivePath
    THEN <<"Connecting to Google Drive...", "Listing files in folder...",
           "Downloading assets for analysis...", "Extracting metadata...",
           "Running image analysis...", "Grouping similar assets...", "Almost done...">>
    ELSE <<"Reading folder...", "Analyzing assets...", "Grouping similar assets...">>

\* the form's state when handleSubmit was called
Submitted == [folderPath |-> setup.folderPath, authenticated |-> setup.authenticated]

\* handleSubmit up to its await: the setup form is shown while it is not
\* collapsed, and its button is disabled while loading
handleSubmit ==
    /\ ~isSetupCollapsed
    /\ ~setup.loading
    /\ IF Trim(setup.folderPath) = <<>>
       THEN /\ setup' = [setup EXCEPT !.error =
                            "Please enter a folder path or select a Google Drive folder"]
            /\ Handled("submit", Submitted, <<>>)
            /\ UNCHANGED <<storeVars, analyzedGroups, handlers, table, sheet,
                           isSetupCollapsed, drive>>
       ELSE IF isDrivePath(setup.folderPath) /\ ~setup.authenticated
       THEN /\ setup' = [setup EXCEPT !.error =
                            "Please sign in with Google to access Drive folders"]
            /\ Handled("submit", Submitted, <<>>)
            /\ UNCHANGED <<storeVars, analyzedGroups, handlers, table, sheet,
                           isSetupCollapsed, drive>>
       ELSE /\ Sent([Handler("analyze", Null, Null, 0, Trim(setup.folderPath), 0, <<>>)
                        EXCEPT !.call = "analyze"])
            /\ setup' = [setup EXCEPT
                            !.loading = TRUE,
                            !.error = Null,
                            !.progressMessages = progressMessages(isDrivePath(setup.folderPath)),
                            !.messageIndex = 0,
                            !.loadingMessage =
                                progressMessages(isDrivePath(setup.folderPath))[1],
                            !.messageInterval = TRUE]
            /\ Handled("submit", Submitted,
                       <<Call("api.analyze", <<Trim(setup.folderPath)>>)>>)
    /\ UNCHANGED <<editor, picker, toolbar>>

NextPage ==
    \/ handleNewAnalysis
    \/ handleSubmit
    \/ handleGroupUpdate
    \/ handleBulkApply
    \/ handleRenumber
    \/ handleRegroupAsset
    \/ handleReorderAsset
    \/ handleUpdateAssetFilename
    \/ Serve
    \/ Resume

SpecPage == Init /\ [][NextPage]_vars

-----------------------------------------------------------------------------
(* The setup form: the page before an analysis, signed in or not.  The      *)
(* folder holds the assets of PairAndSingle.                                *)

\* the page as it is mounted: nothing analysed, the setup form open
Mounted ==
    /\ store = Snapshot(<<>>, {})
    /\ ingested = DOMAIN PairAndSingle.custom
    /\ lastOp = NoOp
    /\ manualEdit = {}
    /\ trip = NoTrip
    /\ nops = 0
    /\ batch = NoBatch
    /\ analyzedGroups = NoSnapshot
    /\ handlers = <<>>
    /\ table = Render(NoSnapshot)
    /\ sheet = <<>>
    /\ isSetupCollapsed = FALSE
    /\ drive = NoRename
    /\ editor = NoEdit
    /\ called = NoCalls
    /\ toolbar = ClosedToolbar

InitSetup ==
    /\ Mounted
    /\ \E authenticated \in BOOLEAN :
        setup = [AfterAnalysis EXCEPT !.folderPath = <<>>, !.authenticated = authenticated]
    /\ picker = NoPicker

\* the callback of setInterval: the next progress message, the last one at most
messageTick ==
    /\ setup.messageInterval
    /\ setup.messageIndex + 1 < Len(setup.progressMessages)
    /\ setup' = [setup EXCEPT
                    !.messageIndex = setup.messageIndex + 1,
                    !.loadingMessage = setup.progressMessages[setup.messageIndex + 2]]
    /\ UNCHANGED <<storeVars, analyzedGroups, handlers, table, sheet, isSetupCollapsed,
                   drive, uiVars>>

NextSetup ==
    \/ setFolderPath
    \/ handleSubmit
    \/ messageTick
    \/ Serve
    \/ Resume
    \/ handleNewAnalysis

SpecSetup == InitSetup /\ [][NextSetup]_vars

\* a handler holds a response it has not taken up: Resume is enabled
Responding == \E i \in 1..Len(handlers) : handlers[i].pc = "response"

\* every request is answered, and a handler whose response has arrived
\* resumes: weak fairness of Serve and of Resume, the latter with its
\* enabling condition written out
FairSetup ==
    /\ SpecSetup
    /\ WF_vars(Serve)
    /\ ([]<>(~Responding) \/ []<><<Resume>>_vars)

-----------------------------------------------------------------------------
(* The Namer on constructed snapshots: two groups of every shape, with ad   *)
(* numbers that may collide and pass 999, asset names with and without an   *)
(* extension, and editable fields present or empty.  The page shows each    *)
(* snapshot; its ad names can be pasted to the sheet.                       *)

SampleAdNumbers == {1, 999, 1000}

Shape(type, assets) == [type |-> type, assets |-> assets]

FirstShapes ==
    {Shape("standard", <<"s1", "f1">>), Shape("single", <<"f1">>),
     Shape("single", <<"n1">>), Shape("single", <<"d1">>), Shape("single", <<"m1">>),
     Shape("carousel", <<"q1", "q2", "q3", "q4", "q5">>)}

SecondShapes ==
    {Shape("standard", <<"s2", "f3">>), Shape("single", <<"f2">>),
     Shape("single", <<"f3">>)}

Fields(campaign, product, angle, hook, creator, offer, date) ==
    [campaign |-> campaign, product |-> product, angle |-> angle, hook |-> hook,
     creator |-> creator, offer |-> offer, date |-> date]

FieldProfiles ==
    {Fields(<<>>, <<>>, <<>>, <<>>, <<>>, FALSE, <<>>),
     Fields(<<"c">>, <<"w">>, <<"a">>, <<"h">>, <<"k">>, TRUE, <<"2", "6">>),
     Fields(<<>>, <<"w">>, <<>>, <<>>, <<>>, TRUE, <<>>),
     Fields(<<"c">>, <<"w", "_">>, <<>>, <<"h">>, <<>>, FALSE, <<>>)}

WithFields(group, f) ==
    [group EXCEPT !.campaign = f.campaign, !.product = f.product, !.angle = f.angle,
                  !.hook = f.hook, !.creator = f.creator, !.offer = f.offer,
                  !.date = f.date]

NamerSnapshots ==
    {Snapshot(<<WithFields(Group("g1", a.type, a.assets, n), f),
                Group("g2", b.type, b.assets, m)>>,
              Range(a.assets) \cup Range(b.assets)) :
        a \in FirstShapes, b \in SecondShapes,
        n \in SampleAdNumbers, m \in SampleAdNumbers, f \in FieldProfiles}

InitNamer == InitFrom(NamerSnapshots)

\* the page shows a snapshot in which one group's ad number has been changed;
\* the record keeps the number the group had
SetAdNumber ==
    \E t \in 1..Len(store.groups), n \in SampleAdNumbers :
        /\ n # store.groups[t].ad_number
        /\ store' = [store EXCEPT !.groups[t].ad_number = n]
        /\ analyzedGroups' = store'
        /\ table' = Render(store')
        /\ lastOp' = Op("setAdNumber", store.groups[t].id, store.groups[t].ad_number, TRUE)
        /\ UNCHANGED <<ingested, batch, manualEdit, trip, nops, handlers, sheet,
                       isSetupCollapsed, drive, setup, uiVars>>

\* handlePasteToSheet: the ad names of sortedGroups are sent to the sheet
handlePasteToSheet ==
    /\ analyzedGroups # NoSnapshot
    /\ Len(analyzedGroups.groups) > 0
    /\ sheet' = [i \in 1..Len(analyzedGroups.groups) |->
                    pasteAdName(sortedGroups(analyzedGroups.groups)[i])]
    /\ UNCHANGED <<storeVars, analyzedGroups, handlers, table, isSetupCollapsed, drive,
                   setup, uiVars>>

\* handleRenameInDrive, once confirm() was accepted: setRenaming(true) and
\* api.renameFilesInDrive(); the button is in the review section and is
\* disabled while renaming.  The record keeps the duplicate set the table
\* showed when the request was sent.
handleRenameInDrive ==
    /\ analyzedGroups # NoSnapshot
    /\ ~drive.renaming
    /\ drive' = [renaming |-> TRUE, duplicates |-> table.duplicates]
    /\ UNCHANGED <<storeVars, analyzedGroups, handlers, table, sheet, isSetupCollapsed,
                   setup, uiVars>>

\* the rename request returns or throws: finally setRenaming(false)
RenameSettled ==
    /\ drive.renaming
    /\ drive' = NoRename
    /\ UNCHANGED <<storeVars, analyzedGroups, handlers, table, sheet, isSetupCollapsed,
                   setup, uiVars>>

NextNamer ==
    \/ SetAdNumber
    \/ handlePasteToSheet
    \/ handleRenameInDrive
    \/ RenameSettled

SpecNamer == InitNamer /\ [][NextNamer]_vars

-----------------------------------------------------------------------------
(* An analysis run: group() on every batch of two story and two feed        *)
(* assets or fewer, in every ingestion order, with every scoring of its     *)
(* story and feed assets.                                                   *)

BatchAssets == {"s1", "s2", "f1", "f2"}

BatchOrders ==
    {q \in UNION {[1..n -> BatchAssets] : n \in 0..Cardinality(BatchAssets)} :
        \A i, j \in 1..Len(q) : i # j => q[i] # q[j]}

Batches ==
    UNION {{[assets |-> q, score |-> sc] :
                sc \in [StoriesOf(q) \X FeedsOf(q) -> 0..MaxScore]} : q \in BatchOrders}

\* before the run the store holds no group
InitGrouper ==
    /\ batch \in Batches
    /\ store = Snapshot(<<>>, Range(batch.assets))
    /\ ingested = Range(batch.assets)
    /\ lastOp = NoOp
    /\ manualEdit = {}
    /\ trip = NoTrip
    /\ nops = 0
    /\ analyzedGroups = NoSnapshot
    /\ handlers = <<>>
    /\ table = Render(store)
    /\ sheet = <<>>
    /\ isSetupCollapsed = FALSE
    /\ drive = NoRename
    /\ setup = [AfterAnalysis EXCEPT !.folderPath = <<>>]
    /\ editor = NoEdit
    /\ called = NoCalls
    /\ picker = NoPicker
    /\ toolbar = ClosedToolbar

\* the analysis run: the Grouper's result becomes the store's snapshot and
\* the page shows it
Analyze ==
    /\ lastOp.kind = "none"
    /\ store' = groupAssets(batch)
    /\ lastOp' = Op("group", Null, 1, TRUE)
    /\ analyzedGroups' = store'
    /\ table' = Render(store')
    /\ isSetupCollapsed' = TRUE
    /\ UNCHANGED <<ingested, batch, manualEdit, trip, nops, handlers, sheet, drive, setup,
                   uiVars>>

NextGrouper == Analyze

SpecGrouper == InitGrouper /\ [][NextGrouper]_vars

-----------------------------------------------------------------------------
(* AssetTable on the review page: the inline filename editor and drag and   *)
(* drop.  Its callbacks are the page's handlers, whose requests the store   *)
(* serves as above.                                                         *)

\* what the user types into the filename input: nothing, blanks, a name
\* with blanks around it
EditValues == {<<>>, <<" ">>, <<" ", "x", " ">>}

\* the (row, position) pairs of the cells the table shows
Cells == UNION {{<<i, j>> : j \in 1..Len(table.rows[i].files)} : i \in 1..Len(table.rows)}

\* asset.asset.id of a cell
CellAssetId(c) == GroupOf(analyzedGroups, table.rows[c[1]].id).assets[c[2]]

\* handleFilenameDoubleClick(assetId, currentFilename) on a filename of the
\* table; a click outside an open input blurs it first
handleFilenameDoubleClick ==
    /\ analyzedGroups # NoSnapshot
    /\ editor.editingAssetId = Null
    /\ \E c \in Cells :
        editor' = [editingAssetId |-> CellAssetId(c),
                   editValue |-> table.rows[c[1]].files[c[2]]]
    /\ Handled("doubleClick", NoInput, <<>>)
    /\ UNCHANGED <<storeVars, analyzedGroups, handlers, table, sheet, isSetupCollapsed,
                   drive, setup, picker, toolbar>>

\* onChange of the filename input: setEditValue(e.target.value)
setEditValue ==
    /\ editor.editingAssetId # Null
    /\ \E v \in EditValues :
        /\ v # editor.editValue
        /\ editor' = [editor EXCEPT !.editValue = v]
    /\ Handled("change", NoInput, <<>>)
    /\ UNCHANGED <<storeVars, analyzedGroups, handlers, table, sheet, isSetupCollapsed,
                   drive, setup, picker, toolbar>>

\* a save that passes the text on as it is, blank or not
handleFilenameSaveUntrimmed(groupId, assetId, event) ==
    /\ Sent(Handler("assetFilename", groupId, assetId, 0, editor.editValue, 0, <<>>))
    /\ Handled(event, NoInput, <<Call("onUpdateAssetFilename",
                             <<groupId, assetId, editor.editValue>>)>>)
    /\ editor' = NoEdit
    /\ UNCHANGED <<setup, picker, toolbar>>

\* handleFilenameSave(groupId, assetId), called for event
handleFilenameSave(groupId, assetId, event) ==
    /\ IF Trim(editor.editValue) # <<>>
       THEN /\ Sent(Handler("assetFilename", groupId, assetId, 0,
                            Trim(editor.editValue), 0, <<>>))
            /\ Handled(event, NoInput, <<Call("onUpdateAssetFilename",
                                     <<groupId, assetId, Trim(editor.editValue)>>)>>)
       ELSE /\ Handled(event, NoInput, <<>>)
            /\ UNCHANGED <<storeVars, analyzedGroups, handlers, table, sheet,
                           isSetupCollapsed, drive>>
    /\ editor' = NoEdit
    /\ UNCHANGED <<setup, picker, toolbar>>

\* handleFilenameCancel()
handleFilenameCancel ==
    /\ editor' = NoEdit
    /\ Handled("Escape", NoInput, <<>>)
    /\ UNCHANGED <<storeVars, analyzedGroups, handlers, table, sheet, isSetupCollapsed,
                   drive, setup, picker, toolbar>>

\* the input is rendered in the row of the asset that is being edited
InputShown ==
    /\ analyzedGroups # NoSnapshot
    /\ editor.editingAssetId # Null
    /\ HomeIndex(analyzedGroups.groups, editor.editingAssetId) # 0

\* handleFilenameKeyDown(e, groupId, assetId) for the keys it reacts to
handleFilenameKeyDown ==
    /\ InputShown
    /\ \E key \in {"Enter", "Escape"} :
        IF key = "Enter"
        THEN handleFilenameSave(HomeId(analyzedGroups.groups, editor.editingAssetId),
                                editor.editingAssetId, "Enter")
        ELSE handleFilenameCancel

\* onBlur of the filename input
onBlur ==
    /\ InputShown
    /\ handleFilenameSave(HomeId(analyzedGroups.groups, editor.editingAssetId),
                          editor.editingAssetId, "blur")

\* result.destination of a drop outside any droppable
NoDestination == [null |-> TRUE]

Position(droppableId, index) == [droppableId |-> droppableId, index |-> index]

\* the DropResults of the table: an asset of a row, dropped nowhere or at an
\* index of a row
DropResults ==
    {[source |-> Position(table.rows[c[1]].id, c[2] - 1),
      destination |-> d,
      draggableId |-> CellAssetId(c)] :
        c \in Cells,
        d \in {NoDestination} \cup
              {Position(table.rows[i].id, k) :
                    i \in 1..Len(table.rows), k \in Indexes}}

\* a drag end that regroups whenever there is a destination
handleDragEndAlwaysRegroups(result) ==
    /\ IF result.destination = NoDestination
       THEN /\ Handled("dragEnd", result, <<>>)
            /\ UNCHANGED <<storeVars, analyzedGroups, handlers, table, sheet,
                           isSetupCollapsed, drive>>
       ELSE /\ Sent(Handler("regroup", result.destination.droppableId, result.draggableId,
                            result.destination.index, <<>>, 0, <<>>))
            /\ Handled("dragEnd", result,
                       <<Call("onRegroupAsset",
                              <<result.draggableId, result.destination.droppableId,
                                result.destination.index>>)>>)
    /\ UNCHANGED <<setup, editor, picker, toolbar>>

\* handleDragEnd(result)
handleDragEnd(result) ==
    /\ IF result.destination = NoDestination
       THEN /\ Handled("dragEnd", result, <<>>)
            /\ UNCHANGED <<storeVars, analyzedGroups, handlers, table, sheet,
                           isSetupCollapsed, drive>>
       ELSE IF result.source = result.destination
       THEN /\ Handled("dragEnd", result, <<>>)
            /\ UNCHANGED <<storeVars, analyzedGroups, handlers, table, sheet,
                           isSetupCollapsed, drive>>
       ELSE IF result.source.droppableId = result.destination.droppableId
       THEN /\ Sent(Handler("reorder", result.source.droppableId, result.draggableId,
                            result.destination.index, <<>>, 0, <<>>))
            /\ Handled("dragEnd", result,
                       <<Call("onReorderAsset",
                              <<result.source.droppableId, result.draggableId,
                                result.destination.index>>)>>)
       ELSE /\ Sent(Handler("regroup", result.destination.droppableId, result.draggableId,
                            result.destination.index, <<>>, 0, <<>>))
            /\ Handled("dragEnd", result,
                       <<Call("onRegroupAsset",
                              <<result.draggableId, result.destination.droppableId,
                                result.destination.index>>)>>)
    /\ UNCHANGED <<setup, editor, picker, toolbar>>

\* onDragEnd of the DragDropContext; picking a row up blurs an open input
DragEnd ==
    /\ analyzedGroups # NoSnapshot
    /\ editor.editingAssetId = Null
    /\ \E result \in DropResults : handleDragEnd(result)

NextTable ==
    \/ handleFilenameDoubleClick
    \/ setEditValue
    \/ handleFilenameKeyDown
    \/ onBlur
    \/ DragEnd
    \/ handleRenumber
    \/ Serve
    \/ Resume

SpecTable == Init /\ [][NextTable]_vars

-----------------------------------------------------------------------------
(* useGooglePicker, as UnifiedPage uses it: openPicker is called through    *)
(* handleOpenPicker, onFolderSelected is handleFolderSelected.  An          *)
(* openPicker call is requesting the token, has the picker open, or is      *)
(* over.                                                                    *)

\* the page of a signed-in user, whose authStatus may lack the picker's api
\* key or the client id
InitPicker ==
    /\ Mounted
    /\ setup = [AfterAnalysis EXCEPT !.folderPath = <<>>, !.authenticated = TRUE]
    /\ \E apiKey \in BOOLEAN, clientId \in BOOLEAN :
        picker = [apiKey |-> apiKey, clientId |-> clientId, isReady |-> FALSE,
                  isLoading |-> FALSE, calls |-> <<>>]

\* the effect that loads the Google API scripts and ends in setIsReady(true)
loadApis ==
    /\ picker.apiKey /\ picker.clientId
    /\ ~picker.isReady
    /\ picker' = [picker EXCEPT !.isReady = TRUE]
    /\ UNCHANGED <<storeVars, analyzedGroups, handlers, table, sheet, isSetupCollapsed,
                   drive, setup, editor, called, toolbar>>

\* openPicker() up to its first await
openPicker ==
    /\ Len(picker.calls) < MaxHandlers
    /\ IF ~picker.isReady \/ ~picker.apiKey
       THEN /\ picker' = [picker EXCEPT !.calls = Append(@, "returned")]
            /\ Handled("openPicker", NoInput, <<>>)
       ELSE /\ picker' = [picker EXCEPT !.isLoading = TRUE, !.calls = Append(@, "token")]
            /\ Handled("openPicker", NoInput, <<Call("fetch", <<"/api/auth/tokens">>)>>)
    /\ UNCHANGED <<storeVars, analyzedGroups, handlers, table, sheet, isSetupCollapsed,
                   drive, setup, editor, toolbar>>

\* what the token request and the construction of the picker can come to
TokenOutcomes == {"ok", "not ok", "no json"}

\* the message of the error openPicker throws for an outcome
PickerError(outcome) ==
    IF outcome = "not ok" THEN "Not authenticated. Please sign in first."
    ELSE "Unexpected end of JSON input"

\* openPicker after the token response: the picker is built and shown, or
\* the catch block resets isLoading and rethrows, and handleOpenPicker
\* catches that and sets the error
tokenResponse ==
    \E i \in 1..Len(picker.calls), outcome \in TokenOutcomes :
        /\ picker.calls[i] = "token"
        /\ IF outcome = "ok"
           THEN /\ picker' = [picker EXCEPT !.calls[i] = "open"]
                /\ Handled("tokenResponse", [outcome |-> outcome], <<>>)
                /\ UNCHANGED setup
           ELSE /\ picker' = [picker EXCEPT !.isLoading = FALSE, !.calls[i] = "failed"]
                /\ Handled("tokenResponse", [outcome |-> outcome],
                           <<Call("throw", <<PickerError(outcome)>>)>>)
                /\ setup' = [setup EXCEPT !.error = PickerError(outcome)]
        /\ UNCHANGED <<storeVars, analyzedGroups, handlers, table, sheet, isSetupCollapsed,
                       drive, editor, toolbar>>

\* the data the picker hands its callback: the action and the documents
PickerData ==
    {[action |-> action, docs |-> docs] :
        action \in {"loaded", "picked", "cancel"},
        docs \in {<<>>, <<[id |-> FolderId, name |-> "ads"]>>}}

\* a callback that resets isLoading only when a folder was picked
pickerCallbackKeepsLoading(i, data) ==
    /\ IF data.action = "picked" /\ data.docs # <<>>
       THEN /\ setup' = [setup EXCEPT !.folderPath = data.docs[1].id, !.error = Null]
            /\ Handled("pickerCallback", data,
                       <<Call("onFolderSelected", <<data.docs[1].id, data.docs[1].name>>)>>)
            /\ picker' = [picker EXCEPT !.isLoading = FALSE, !.calls[i] = "closed"]
       ELSE /\ Handled("pickerCallback", data, <<>>)
            /\ picker' = [picker EXCEPT
                    !.calls[i] = IF data.action = "loaded" THEN "open" ELSE "closed"]
            /\ UNCHANGED setup
    /\ UNCHANGED <<storeVars, analyzedGroups, handlers, table, sheet, isSetupCollapsed,
                   drive, editor, toolbar>>

\* the callback given to setCallback, called by the picker of call i;
\* onFolderSelected is handleFolderSelected
pickerCallback(i, data) ==
    /\ IF data.action = "picked" /\ data.docs # <<>>
       THEN /\ setup' = [setup EXCEPT !.folderPath = data.docs[1].id, !.error = Null]
            /\ Handled("pickerCallback", data,
                       <<Call("onFolderSelected", <<data.docs[1].id, data.docs[1].name>>)>>)
       ELSE /\ Handled("pickerCallback", data, <<>>)
            /\ UNCHANGED setup
    /\ picker' = [picker EXCEPT
            !.isLoading = FALSE,
            !.calls[i] = IF data.action = "loaded" THEN "open" ELSE "closed"]
    /\ UNCHANGED <<storeVars, analyzedGroups, handlers, table, sheet, isSetupCollapsed,
                   drive, editor, toolbar>>

\* the picker of an open call reports an action
PickerActs ==
    \E i \in 1..Len(picker.calls), data \in PickerData :
        /\ picker.calls[i] = "open"
        /\ pickerCallback(i, data)

NextPicker ==
    \/ loadApis
    \/ openPicker
    \/ tokenResponse
    \/ PickerActs

SpecPicker == InitPicker /\ [][NextPicker]_vars

-----------------------------------------------------------------------------
(* BulkToolbar over the groups under review: its Apply to Selected panel.   *)

ANGLE_OPTIONS ==
    {"ProductFocus", "Offer", "Price", "SocialProof", "Education", "BehindTheScenes",
     "Founder", "Brand", "Newness"}

\* the options of the Field select
ApplyFields == {"product", "angle", "creator", "offer"}

\* what the user types into the Value input
TextValues == {"", "w"}

\* the values the control rendered for a field offers
ValueOptions(field) ==
    IF field = "angle" THEN ANGLE_OPTIONS
    ELSE IF field = "offer" THEN {"Yes", "No"}
    ELSE TextValues

\* the parent changes the selection: selectedCount of totalCount groups
setSelected ==
    /\ analyzedGroups # NoSnapshot
    /\ \E n \in 0..Len(analyzedGroups.groups) :
        /\ n # toolbar.selectedCount
        /\ toolbar' = [toolbar EXCEPT !.selectedCount = n]
    /\ UNCHANGED <<storeVars, analyzedGroups, handlers, table, sheet, isSetupCollapsed,
                   drive, setup, editor, called, picker>>

\* the Apply to Selected button, disabled while nothing is selected
toggleApply ==
    /\ toolbar.selectedCount > 0
    /\ toolbar' = [toolbar EXCEPT !.showApply = ~toolbar.showApply]
    /\ UNCHANGED <<storeVars, analyzedGroups, handlers, table, sheet, isSetupCollapsed,
                   drive, setup, editor, called, picker>>

\* onChange of the Field select: setApplyField(e.target.value)
setApplyField ==
    /\ toolbar.showApply
    /\ \E field \in ApplyFields :
        /\ field # toolbar.applyField
        /\ toolbar' = [toolbar EXCEPT !.applyField = field]
    /\ UNCHANGED <<storeVars, analyzedGroups, handlers, table, sheet, isSetupCollapsed,
                   drive, setup, editor, called, picker>>

\* onChange of the Value control: setApplyValue(e.target.value)
setApplyValue ==
    /\ toolbar.showApply
    /\ \E value \in ValueOptions(toolbar.applyField) :
        /\ value # toolbar.applyValue
        /\ toolbar' = [toolbar EXCEPT !.applyValue = value]
    /\ UNCHANGED <<storeVars, analyzedGroups, handlers, table, sheet, isSetupCollapsed,
                   drive, setup, editor, called, picker>>

\* handleApply(), the Apply button of the panel
handleApply ==
    /\ toolbar.showApply
    /\ IF toolbar.applyValue # "" /\ toolbar.selectedCount > 0
       THEN /\ Handled("apply", [selectedCount |-> toolbar.selectedCount],
                       <<Call("onBulkApply", <<toolbar.applyField, toolbar.applyValue>>)>>)
            /\ toolbar' = [toolbar EXCEPT !.showApply = FALSE]
       ELSE /\ Handled("apply", [selectedCount |-> toolbar.selectedCount], <<>>)
            /\ UNCHANGED toolbar
    /\ UNCHANGED <<storeVars, analyzedGroups, handlers, table, sheet, isSetupCollapsed,
                   drive, setup, editor, picker>>

NextToolbar ==
    \/ setSelected
    \/ toggleApply
    \/ setApplyField
    \/ setApplyValue
    \/ handleApply

SpecToolbar == Init /\ [][NextToolbar]_vars

-----------------------------------------------------------------------------
(* Properties *)

\* how many places of the snapshot hold asset a
Occurrences(snap, a) ==
    Cardinality({s \in Slots(snap.groups) : snap.groups[s[1]].assets[s[2]] = a})
      + Cardinality({j \in 1..Len(snap.ungrouped) : snap.ungrouped[j] = a})

ExactlyOnce(snap) ==
    /\ SnapshotAssets(snap) \subseteq ingested
    /\ \A a \in ingested : Occurrences(snap, a) = 1

\* C1: in every snapshot reachable from a Grouper result by regroup, reorder,
\* renumber, updateFields, updateAsset, bulkReplace and bulkApply, every
\* ingested asset is in exactly one place: one position of one group, or the
\* ungrouped pool.
C1_EveryAssetExactlyOnce == ExactlyOnce(store)

\* a regroup has moved an asset into the pool and another into a group
C1_Witness ==
    /\ lastOp.kind = "regroup" /\ lastOp.ok /\ lastOp.target # Null
    /\ store.ungrouped # <<>>
    /\ nops >= 2

AdNumbers(snap) == {snap.groups[i].ad_number : i \in 1..Len(snap.groups)}

\* the ad number of group gid changes in this step
Renumbered(gid) ==
    /\ gid \in GroupIdsOf(store) /\ gid \in GroupIdsOf(store')
    /\ GroupOf(store, gid).ad_number # GroupOf(store', gid).ad_number

\* C3: a step that changes any ad number is a renumber(n), and after it the
\* groups' ad numbers are n, n+1, ..., one number per group; no step leaves
\* only part of the groups renumbered.
C3_RenumberIsAtomicSequence ==
    [][(\E gid \in GroupIds : Renumbered(gid)) \/ lastOp'.kind = "renumber"
        => /\ lastOp'.kind = "renumber"
           /\ lastOp'.ok
           /\ AdNumbers(store') = lastOp'.start .. (lastOp'.start + Len(store'.groups) - 1)
           /\ Cardinality(AdNumbers(store')) = Len(store'.groups)]_vars

\* renumber(2) has changed the number of more than one group
C3_Witness ==
    /\ lastOp.kind = "renumber" /\ lastOp.start = 2
    /\ Len(store.groups) >= 2
    /\ AdNumbers(store) = {2, 3}

\* the ad numbers as the review surface lists them, top to bottom
DisplayedAdNumbers(snap) ==
    [i \in 1..Len(snap.groups) |-> sortedGroups(snap.groups)[i].ad_number]

C5_NeverDuplicateFilenames == duplicateFilenames(store) = {}

\* C5 as amended: as long as no regroup and no custom filename override has
\* been applied (only reorder, renumber and field edits), no two assets have
\* the same generated filename.
C5_NoDuplicatesWithoutManualOverride ==
    manualEdit = {} => duplicateFilenames(store) = {}

\* renumber, reorder and a field edit have been applied, and nothing else
C5_Witness ==
    /\ manualEdit = {}
    /\ lastOp.kind = "renumber" /\ lastOp.start = 2
    /\ \E i \in 1..Len(store.groups) : store.groups[i].product # <<>>
    /\ \E i \in 1..Len(store.groups) : store.groups[i].assets = <<"f1", "s1">>

\* the filename the review surface generates for a grouped asset
FilenameOf(snap, a) ==
    LET h == HomeIndex(snap.groups, a)
    IN  generateNewFileName(snap, snap.groups[h], a, IndexOf(snap.groups[h].assets, a) - 1)

\* C6: an asset whose custom_filename is the non-empty string s has the
\* generated filename s, verbatim, after every later operation that is not a
\* change of custom_filename, wherever the asset is then grouped.
C6_CustomFilenameWins ==
    [][\A a \in ingested :
        (store.custom[a] # NoCustom /\ lastOp'.kind # "updateAsset"
            /\ HomeIndex(store'.groups, a) # 0)
        => FilenameOf(store', a) = store.custom[a]]_vars

\* an asset with a custom filename has been regrouped into a group that was
\* then renumbered
C6_Witness ==
    /\ lastOp.kind = "renumber"
    /\ "regroup" \in manualEdit
    /\ \E a \in ingested :
        /\ store.custom[a] = <<"x">>
        /\ HomeIndex(store.groups, a) # 0
        /\ FilenameOf(store, a) = <<"x">>

\* the group an asset was taken from, as it was before the round trip
TripSource == trip.before[GroupIndex(trip.before, trip.group)]

IsStory(a) == Placement(a) = <<"s", "t", "o", "r", "y">>

IsFeed(a) == Placement(a) = <<"f", "e", "e", "d">>

\* the shape rule of the group's declared type
Conforms(g) ==
    CASE g.group_type = "standard" ->
            /\ Len(g.assets) = 2
            /\ \E i \in 1..2 : IsStory(g.assets[i])
            /\ \E i \in 1..2 : IsFeed(g.assets[i])
      [] g.group_type = "carousel" ->
            Len(g.assets) >= CarouselMin /\ Len(g.assets) <= CarouselMax
      [] g.group_type = "single" -> Len(g.assets) = 1
      [] OTHER -> FALSE

AllGroupsConform(snap) == \A i \in 1..Len(snap.groups) : Conforms(snap.groups[i])

C2_BulkApplyAllOrNothing ==
    \A i \in 1..Len(handlers) :
        handlers[i].kind = "bulkApply" /\ handlers[i].pc = "failed"
            => ~handlers[i].changed

\* C8 as claimed: a mutation that fails leaves the store's snapshot as it was
\* before the mutation started.
C8_FailureLeavesSnapshotUnchanged ==
    \A i \in 1..Len(handlers) : handlers[i].pc = "failed" => ~handlers[i].changed

-----------------------------------------------------------------------------
(* Duplicate detection and the Namer's formats *)

\* the (group, asset) pairs of the page's snapshot that the Namer names `name`
PairsNamed(name) ==
    {s \in Slots(analyzedGroups.groups) : SlotName(analyzedGroups, s) = name}

\* C11: whenever the page holds a snapshot, the duplicate set the table shows
\* is exactly the set of filenames the Namer gives to more than one
\* (group, asset) pair of that snapshot: no filename that occurs once is in
\* it, none that occurs twice or more is missing, and it is never the set of
\* an earlier snapshot.
C11_DuplicateSetMatchesSnapshot ==
    analyzedGroups # NoSnapshot =>
        /\ \A name \in table.duplicates : Cardinality(PairsNamed(name)) >= 2
        /\ \A s \in Slots(analyzedGroups.groups) :
              Cardinality(PairsNamed(SlotName(analyzedGroups, s))) >= 2
                  => SlotName(analyzedGroups, s) \in table.duplicates

\* a mutation's response has been rendered and its snapshot has duplicates
C11_Witness ==
    /\ \E i \in 1..Len(handlers) : handlers[i].pc = "done" /\ handlers[i].changed
    /\ table.duplicates # {}
    /\ table.duplicates # Render(PairAndSingle).duplicates

\* the table's row of group gid
RowOf(tbl, gid) == tbl.rows[CHOOSE i \in 1..Len(tbl.rows) : tbl.rows[i].id = gid]

\* the part of a name after its last dot, nothing when it has no dot
Suffix(name) ==
    IF \E i \in 1..Len(name) : name[i] = "."
    THEN SubSeq(name, (CHOOSE i \in 1..Len(name) :
                          name[i] = "." /\ \A j \in (i + 1)..Len(name) : name[j] # ".") + 1,
                Len(name))
    ELSE <<>>

\* assets x of group g and y of group h collide by their inputs: both groups
\* standard with the same ad number, both assets without custom filename and
\* of the same asset type, placement and extension
CollidingInputs(snap, g, x, h, y) ==
    /\ g.id # h.id
    /\ g.group_type = "standard" /\ h.group_type = "standard"
    /\ g.ad_number = h.ad_number
    /\ snap.custom[g.assets[x]] = NoCustom /\ snap.custom[h.assets[y]] = NoCustom
    /\ AssetType(g.assets[x]) = AssetType(h.assets[y])
    /\ Placement(g.assets[x]) = Placement(h.assets[y])
    /\ Suffix(AssetName(g.assets[x])) = Suffix(AssetName(h.assets[y]))

\* the ad number of exactly one of the groups g, h differs in the next snapshot
ChangesOneAdNumber(g, h) ==
    LET g2 == GroupOf(analyzedGroups', g.id)
        h2 == GroupOf(analyzedGroups', h.id)
    IN  \/ g2.ad_number # g.ad_number /\ h2.ad_number = h.ad_number
        \/ g2.ad_number = g.ad_number /\ h2.ad_number # h.ad_number

\* C12: when two standard groups have the same ad number and assets of the
\* same asset type, placement and extension, the filenames of both assets are
\* in the duplicate set; after the ad number of either group is changed,
\* neither the filename they shared nor their new filenames are in it.
C12_CollisionMarkedUntilAdNumberChanges ==
    [][\A i \in 1..Len(analyzedGroups.groups), j \in 1..Len(analyzedGroups.groups) :
         LET g == analyzedGroups.groups[i]
             h == analyzedGroups.groups[j]
         IN  \A x \in 1..Len(g.assets), y \in 1..Len(h.assets) :
                CollidingInputs(analyzedGroups, g, x, h, y) =>
                    /\ RowOf(table, g.id).files[x] \in table.duplicates
                    /\ RowOf(table, h.id).files[y] \in table.duplicates
                    /\ ChangesOneAdNumber(g, h) =>
                          /\ RowOf(table, g.id).files[x] \notin table'.duplicates
                          /\ RowOf(table', g.id).files[x] \notin table'.duplicates
                          /\ RowOf(table', h.id).files[y] \notin table'.duplicates
      ]_vars

\* two standard groups had the same ad number and one of them was given another
C12_Witness ==
    /\ lastOp.kind = "setAdNumber"
    /\ Len(store.groups) = 2
    /\ \A i \in 1..2 : store.groups[i].group_type = "standard"
    /\ \E i \in 1..2 : store.groups[i].id # lastOp.target
                          /\ store.groups[i].ad_number = lastOp.start
    /\ table.duplicates = {}

\* what follows the leading digits of a filename
AfterDigits(file) == SubSeq(file, Len(LeadingDigits(file)) + 1, Len(file))

\* the extension the specification gives a source name: its suffix after the
\* last dot, jpg when it has no dot
SpecExtension(name) ==
    IF \E i \in 1..Len(name) : name[i] = "." THEN Suffix(name) ELSE <<"j", "p", "g">>

\* the (row, position) pairs of the table whose asset is in a standard or
\* single group and has no custom filename
PlainCells ==
    {c \in UNION {{<<i, j>> : j \in 1..Len(table.rows[i].files)} : i \in 1..Len(table.rows)} :
        /\ GroupOf(analyzedGroups, table.rows[c[1]].id).group_type # "carousel"
        /\ analyzedGroups.custom[GroupOf(analyzedGroups, table.rows[c[1]].id).assets[c[2]]]
              = NoCustom}

CellGroup(c) == GroupOf(analyzedGroups, table.rows[c[1]].id)

CellAsset(c) == CellGroup(c).assets[c[2]]

CellFile(c) == table.rows[c[1]].files[c[2]]

\* C13 as claimed: for every positive ad number, the filename of an asset
\* without custom filename in a standard or single group is the ad number as
\* exactly 3 zero-padded digits, '_', asset type, '_', placement, '.', the
\* original extension (read for source names that have one).
C13_ThreeDigitsForEveryAdNumber ==
    \A c \in PlainCells :
        Suffix(AssetName(CellAsset(c))) # <<>> =>
            /\ Len(LeadingDigits(CellFile(c))) = 3
            /\ ParseInt(LeadingDigits(CellFile(c))) = CellGroup(c).ad_number
            /\ AfterDigits(CellFile(c)) =
                  <<"_">> \o AssetType(CellAsset(c)) \o <<"_">> \o Placement(CellAsset(c))
                    \o <<".">> \o Suffix(AssetName(CellAsset(c)))

\* C13, amended: when the source name has a non-empty suffix after its last
\* dot, the filename is the ad number padded with zeros to at least 3 digits
\* (exactly 3 up to 999, all its digits and no padding from 1000 on), '_',
\* asset type, '_', placement, '.', that suffix.
C13_AtLeastThreeDigits ==
    \A c \in PlainCells :
        Suffix(AssetName(CellAsset(c))) # <<>> =>
            /\ Len(LeadingDigits(CellFile(c))) >= 3
            /\ CellGroup(c).ad_number <= 999 => Len(LeadingDigits(CellFile(c))) = 3
            /\ Len(LeadingDigits(CellFile(c))) > 3 => LeadingDigits(CellFile(c))[1] # "0"
            /\ ParseInt(LeadingDigits(CellFile(c))) = CellGroup(c).ad_number
            /\ AfterDigits(CellFile(c)) =
                  <<"_">> \o AssetType(CellAsset(c)) \o <<"_">> \o Placement(CellAsset(c))
                    \o <<".">> \o Suffix(AssetName(CellAsset(c)))

\* the table shows a standard pair numbered 1000 next to a single numbered 999
C13_Witness ==
    \E c \in PlainCells, d \in PlainCells :
        /\ CellGroup(c).group_type = "standard" /\ CellGroup(c).ad_number = 1000
        /\ CellGroup(d).group_type = "single" /\ CellGroup(d).ad_number = 999
        /\ Suffix(AssetName(CellAsset(c))) # <<>>
        /\ Suffix(AssetName(CellAsset(d))) # <<>>

\* the filename the Namer gives the asset at 1-based position j of group g of
\* the store's snapshot
StoreFile(g, j) == generateNewFileName(store, g, g.assets[j], j - 1)

CardMarker == <<"_", "C", "A", "R", "_", "C", "a", "r", "d">>

\* the card digits of a carousel filename: the digits after the marker
CardDigits(file) ==
    LeadingDigits(SubSeq(AfterDigits(file), Len(CardMarker) + 1, Len(AfterDigits(file))))

\* C14: every asset without custom filename of a carousel group is named by
\* the ad number padded with zeros to 4 digits, '_CAR_Card', its 1-based
\* position in the group's current order as 2 zero-padded digits, '.', the
\* extension; so after any reorder or regroup the card numbers of a carousel
\* are 01..n in the group's current order, without gap or repetition.
C14_CarouselCardsNumberedInOrder ==
    \A i \in 1..Len(store.groups) :
        LET g == store.groups[i]
        IN  g.group_type = "carousel" =>
              \A j \in 1..Len(g.assets) :
                 store.custom[g.assets[j]] = NoCustom =>
                    /\ Len(LeadingDigits(StoreFile(g, j))) = 4
                    /\ ParseInt(LeadingDigits(StoreFile(g, j))) = g.ad_number
                    /\ SubSeq(AfterDigits(StoreFile(g, j)), 1, Len(CardMarker)) = CardMarker
                    /\ Len(CardDigits(StoreFile(g, j))) = 2
                    /\ ParseInt(CardDigits(StoreFile(g, j))) = j
                    /\ AfterDigits(StoreFile(g, j)) =
                          CardMarker \o CardDigits(StoreFile(g, j)) \o <<".">>
                            \o Suffix(AssetName(g.assets[j]))

\* a card was reordered in a carousel that an asset had been regrouped into,
\* and the carousel no longer starts with its first card
C14_Witness ==
    /\ lastOp.kind = "reorder" /\ lastOp.ok
    /\ "regroup" \in manualEdit
    /\ HasGroup(store, lastOp.target)
    /\ GroupOf(store, lastOp.target).group_type = "carousel"
    /\ Len(GroupOf(store, lastOp.target).assets) = 6
    /\ GroupOf(store, lastOp.target).assets[1] # "q1"

\* the (row, position) pairs of the table whose asset has no custom filename
GeneratedCells ==
    {c \in UNION {{<<i, j>> : j \in 1..Len(table.rows[i].files)} : i \in 1..Len(table.rows)} :
        analyzedGroups.custom[CellAsset(c)] = NoCustom}

\* C15 as claimed: the extension of a generated filename is the suffix after
\* the last dot of the source asset name, and jpg when the name has no dot.
C15_ExtensionIsSuffixOrJpg ==
    \A c \in GeneratedCells :
        /\ \E i \in 1..Len(CellFile(c)) : CellFile(c)[i] = "."
        /\ Suffix(CellFile(c)) = SpecExtension(AssetName(CellAsset(c)))

\* the ad name as specified: the fields in their fixed order, empty ones
\* skipped, joined with '_', runs of '_' collapsed to one
SpecAdName(group) ==
    LET present(x) == x # <<>>
        fields == <<PadStart(NumberToString(group.ad_number), 3), group.campaign,
                    group.product, group.format_token, group.angle, group.hook,
                    group.creator,
                    IF group.offer THEN <<"O", "f", "f", "e", "r">> ELSE <<>>,
                    group.date>>
    IN  CollapseUnderscores(Join(SelectSeq(fields, present)))

\* C16 as claimed: every ad name the page produces for a group, the one in
\* the table and the one pasted to the sheet, is the specified join for that
\* group (a pasted name is compared at the ad number it carries).
C16_EveryAdNameIsTheOrderedJoin ==
    /\ \A i \in 1..Len(table.rows) :
          table.rows[i].adName = SpecAdName(GroupOf(analyzedGroups, table.rows[i].id))
    /\ \A i \in 1..Len(sheet) :
          sheet[i] = SpecAdName([sortedGroups(analyzedGroups.groups)[i] EXCEPT
                                    !.ad_number = ParseInt(LeadingDigits(sheet[i]))])

-----------------------------------------------------------------------------
(* Confidence *)

\* the minimum of a group's four confidence scores
MinConfidence(group) ==
    LET c == group.confidence
        scores == {c.group, c.product, c.angle, c.offer}
    IN  CHOOSE m \in scores : \A x \in scores : m <= x

\* C17 as claimed: the table lists the groups by the minimum of their four
\* confidence scores, ascending.
C17_ListedByLowestConfidence ==
    \A i \in 1..Len(table.rows), j \in 1..Len(table.rows) :
        i < j => MinConfidence(GroupOf(analyzedGroups, table.rows[i].id))
                    <= MinConfidence(GroupOf(analyzedGroups, table.rows[j].id))

-----------------------------------------------------------------------------
(* Reorder *)

\* C20: a reorder whose ids resolve leaves its group with the same assets,
\* the moved asset at new_index clamped to the group's valid positions and
\* the other assets in their relative order, and changes nothing in any other
\* group, in the ungrouped pool or in any other field; a reorder whose ids do
\* not resolve fails and leaves the snapshot as it was.
C20_ReorderMovesOneAsset ==
    [][lastOp'.kind = "reorder" /\ nops' = nops + 1 =>
          IF lastOp'.resolved
          THEN LET t == GroupIndex(store.groups, lastOp'.target)
                   before == store.groups[t].assets
                   after == store'.groups[t].assets
               IN  /\ lastOp'.ok
                   /\ Len(store'.groups) = Len(store.groups)
                   /\ Len(after) = Len(before) /\ Range(after) = Range(before)
                   /\ after[Clamp(lastOp'.index, 0, Len(before) - 1) + 1] = lastOp'.asset
                   /\ WithoutElement(after, lastOp'.asset) = WithoutElement(before, lastOp'.asset)
                   /\ store' = [store EXCEPT !.groups[t].assets = after]
          ELSE ~lastOp'.ok /\ store' = store
      ]_vars

\* the last asset of a group of three was just moved to its front
C20_Witness ==
    /\ lastOp.kind = "reorder" /\ lastOp.ok /\ lastOp.index = 0 /\ lastOp.asset = "f1"
    /\ Len(GroupOf(store, lastOp.target).assets) = 3
    /\ GroupOf(store, lastOp.target).assets = <<"f1", "f2", "s1">>

-----------------------------------------------------------------------------
(* Find & Replace *)

\* C21: bulkReplace(field, find, replace) writes replace into the field of
\* exactly the groups whose value equals find, changes no other group, no
\* other field, neither the pool nor a custom filename, and without a match
\* it succeeds and returns the snapshot it was given
C21_BulkReplaceChangesExactMatchesOnly ==
    [][lastOp'.kind = "bulkReplace" /\ nops' = nops + 1 =>
          /\ lastOp'.ok
          /\ Len(store'.groups) = Len(store.groups)
          /\ \A i \in 1..Len(store.groups) :
                store'.groups[i] =
                    IF store.groups[i].product = lastOp'.find
                    THEN [store.groups[i] EXCEPT !.product = lastOp'.replace]
                    ELSE store.groups[i]
          /\ store'.ungrouped = store.ungrouped
          /\ store'.custom = store.custom
          /\ ((\A i \in 1..Len(store.groups) : store.groups[i].product # lastOp'.find)
                => store' = store)
      ]_vars

\* a replace of w by v has changed g1 and has left the w-less g2 alone
C21_Witness ==
    /\ lastOp.kind = "bulkReplace" /\ lastOp.ok
    /\ lastOp.find = <<"w">> /\ lastOp.replace = <<"v">>
    /\ HasGroup(store, "g1") /\ GroupOf(store, "g1").product = <<"v">>
    /\ HasGroup(store, "g2") /\ GroupOf(store, "g2").product = <<>>
-----------------------------------------------------------------------------
(* Regroup *)

\* the assets of group gid in a snapshot, none when the group is not in it
MembersOf(snap, gid) ==
    IF HasGroup(snap, gid) THEN GroupOf(snap, gid).assets ELSE <<>>

NoEmptyGroup(snap) == \A i \in 1..Len(snap.groups) : Len(snap.groups[i].assets) >= 1

\* C23: no snapshot holds a group without assets; a regroup that takes the
\* only asset out of a group removes the group, and a regroup that takes one
\* asset out of a standard group of two leaves the other asset in that group,
\* retyped to single
C23_NoEmptyGroupAndPairBecomesSingle ==
    /\ [](NoEmptyGroup(store))
    /\ [][(/\ lastOp'.kind = "regroup" /\ nops' = nops + 1 /\ lastOp'.ok
           /\ HomeIndex(store.groups, lastOp'.asset) # 0
           /\ HomeId(store.groups, lastOp'.asset) # lastOp'.target) =>
              LET home == store.groups[HomeIndex(store.groups, lastOp'.asset)]
              IN  /\ Len(home.assets) = 1 => ~HasGroup(store', home.id)
                  /\ (Len(home.assets) = 2 /\ home.group_type = "standard") =>
                        /\ HasGroup(store', home.id)
                        /\ GroupOf(store', home.id).assets =
                              WithoutElement(home.assets, lastOp'.asset)
                        /\ GroupOf(store', home.id).group_type = "single"
          ]_vars

\* g2 lost its only asset and is gone, and the pair g1 has just lost its story
\* asset and is a single
C23_Witness ==
    /\ lastOp.kind = "regroup" /\ lastOp.ok /\ lastOp.asset = "s1"
    /\ ~HasGroup(store, "g2")
    /\ HasGroup(store, "g1")
    /\ GroupOf(store, "g1").assets = <<"f1">>
    /\ GroupOf(store, "g1").group_type = "single"
-----------------------------------------------------------------------------
(* Requests of the review page *)

\* the handlers whose mutation request has been sent and whose response has
\* not been taken up yet
MutationsInFlight ==
    {i \in 1..Len(handlers) :
        handlers[i].call = "mutate" /\ handlers[i].pc \in {"request", "response"}}

\* C24: the review page never has two mutation requests in flight at the
\* same time
C24_OneMutationInFlight == Cardinality(MutationsInFlight) <= 1
\* C25: a snapshot the page has obtained is never changed in place: the
\* snapshot under review changes only by being dropped on a reset or by being
\* replaced with the snapshot a response carried, exactly as it was received
\* (display sorting leaves its groups in the order they came in), and neither
\* it nor a received response changes when the store applies a later mutation
C25_HeldSnapshotNeverChangedInPlace ==
    [][/\ (analyzedGroups' # analyzedGroups /\ analyzedGroups' # NoSnapshot) =>
            \E i \in 1..Len(handlers) :
                /\ handlers[i].pc = "response" /\ handlers'[i].pc = "done"
                /\ analyzedGroups' = handlers[i].data
       /\ store' # store =>
            /\ analyzedGroups' = analyzedGroups
            /\ \A i \in 1..Len(handlers) :
                  handlers[i].pc = "response" => handlers'[i].data = handlers[i].data
      ]_vars

\* the page shows a snapshot whose groups are not in display order, one
\* handler has finished, and the store has served a later mutation that the
\* page has not taken up
C25_Witness ==
    /\ analyzedGroups # NoSnapshot
    /\ analyzedGroups.groups # sortedGroups(analyzedGroups.groups)
    /\ store # analyzedGroups
    /\ \E i, j \in 1..Len(handlers) :
          /\ handlers[i].pc = "done"
          /\ handlers[j].pc = "response" /\ handlers[j].changed
-----------------------------------------------------------------------------
(* Grouper *)

\* the (story, feed) pairs the snapshot's standard groups hold
PairsOf(snap) ==
    {<<snap.groups[i].assets[1], snap.groups[i].assets[2]>> :
        i \in {j \in 1..Len(snap.groups) : snap.groups[j].group_type = "standard"}}

\* C26: group() makes standard groups of exactly one story and one feed asset
\* and single groups of one asset, never a larger group; the pairs are the
\* greedy matching (a pair that could have matched lost at least one of its
\* assets to a pair with a higher score, or an equal score and an earlier
\* place in the ingestion order); every input asset is in exactly one group;
\* and a story, a feed with overlapping text and an unrelated feed give
\* one standard and one single group
C26_GroupPairsEachStoryWithBestFeed ==
    lastOp.kind = "group" =>
        /\ \A i \in 1..Len(store.groups) :
              LET g == store.groups[i]
              IN  \/ /\ g.group_type = "standard" /\ Len(g.assets) = 2
                     /\ g.assets[1] \in StoriesOf(batch.assets)
                     /\ g.assets[2] \in FeedsOf(batch.assets)
                     /\ batch.score[<<g.assets[1], g.assets[2]>>] >= MatchThreshold
                  \/ g.group_type = "single" /\ Len(g.assets) = 1
        /\ \A p \in StoriesOf(batch.assets) \X FeedsOf(batch.assets) :
              (batch.score[p] >= MatchThreshold /\ p \notin PairsOf(store)) =>
                  \E q \in PairsOf(store) :
                      (q[1] = p[1] \/ q[2] = p[2]) /\ Precedes(batch, q, p)
        /\ store.ungrouped = <<>>
        /\ \A a \in Range(batch.assets) : Occurrences(store, a) = 1
        /\ SnapshotAssets(store) = Range(batch.assets)
        /\ (/\ batch.assets = <<"s1", "f1", "f2">>
            /\ batch.score[<<"s1", "f1">>] = MaxScore
            /\ batch.score[<<"s1", "f2">>] = 0) => store = PairAndSingle

\* the scenario has been grouped: s1 and f1 are a pair, f2 is a single
C26_Witness ==
    /\ lastOp.kind = "group"
    /\ batch.assets = <<"s1", "f1", "f2">>
    /\ batch.score[<<"s1", "f1">>] = MaxScore /\ batch.score[<<"s1", "f2">>] = 0
    /\ Len(store.groups) = 2
    /\ store.groups[1].group_type = "standard" /\ store.groups[1].assets = <<"s1", "f1">>
    /\ store.groups[2].group_type = "single" /\ store.groups[2].assets = <<"f2">>
-----------------------------------------------------------------------------
(* Determinism of the Namer *)

-----------------------------------------------------------------------------
(* The page after its requests have completed *)

\* every handler that was started has run to its end
AllCompleted == \A i \in 1..Len(handlers) : handlers[i].pc \in {"done", "failed"}

\* C28: once every request of the review handlers has completed, the
\* snapshot the page shows is the store's current snapshot
C28_PageShowsStoreWhenIdle ==
    (AllCompleted /\ analyzedGroups # NoSnapshot) => analyzedGroups = store
-----------------------------------------------------------------------------
(* New Analysis *)

\* C29: after New Analysis has reset the page, the snapshot under review
\* stays null until an analysis succeeds: it is set only by the handler of
\* an analysis taking up its result
C29_ResetHoldsUntilNewAnalysis ==
    [][(analyzedGroups = NoSnapshot /\ analyzedGroups' # NoSnapshot) =>
          \E i \in 1..Len(handlers) :
              /\ handlers[i].call = "analyze"
              /\ handlers[i].pc = "response" /\ handlers'[i].pc = "done"
      ]_vars

-----------------------------------------------------------------------------
(* Rename in Drive *)

\* C30: a Rename in Drive request is never running with a non-empty
\* duplicate set shown by the table when it was sent
C30_NoRenameWithDuplicates == drive.renaming => drive.duplicates = {}

\* the preconditions of a collision-free snapshot: ad numbers pairwise
\* distinct, no custom filename, every standard group one story and one feed
\* asset, every other group a carousel or a single of one asset
CollisionFree(snap) ==
    /\ \A i, j \in 1..Len(snap.groups) :
          i # j => snap.groups[i].ad_number # snap.groups[j].ad_number
    /\ \A a \in DOMAIN snap.custom : snap.custom[a] = NoCustom
    /\ \A i \in 1..Len(snap.groups) :
          \/ snap.groups[i].group_type = "carousel"
          \/ snap.groups[i].group_type \in {"standard", "single"} /\ Conforms(snap.groups[i])

\* C31: in any snapshot where ad numbers are pairwise distinct, no asset has
\* a custom filename, every standard group is one story and one feed asset
\* and every other group is a carousel or a single, the duplicate-filename
\* set is empty.
C31_NoDuplicatesInCollisionFreeSnapshot ==
    CollisionFree(store) => duplicateFilenames(store) = {}

\* a collision-free snapshot of two singles reached by regrouping and
\* renumbering
C31_Witness ==
    /\ CollisionFree(store)
    /\ "regroup" \in manualEdit
    /\ lastOp.kind = "renumber" /\ lastOp.start = 2
    /\ Len(store.groups) = 2
    /\ \A i \in 1..Len(store.groups) : store.groups[i].group_type = "single"

\* the filename the derived schema gives a grouped asset
DerivedFilename(snap, a) == FilenameOf([snap EXCEPT !.custom[a] = NoCustom], a)

\* C32: committing the inline filename editor without changing its text
\* creates no custom filename override: unless a different text was typed,
\* the filename of every grouped asset follows the derived schema, also
\* after a later renumber.
C32_UnchangedCommitKeepsDerivedName ==
    \A a \in ingested :
        HomeIndex(store.groups, a) # 0 =>
            \/ FilenameOf(store, a) = DerivedFilename(store, a)
            \/ FilenameOf(store, a) \in {Trim(v) : v \in EditValues}

\* this step calls handleUpdateAssetFilename
IssuesFilenameUpdate ==
    /\ Len(handlers') = Len(handlers) + 1
    /\ handlers'[Len(handlers')].kind = "assetFilename"

\* what a step of the editor has to satisfy
EditorStep ==
    /\ IssuesFilenameUpdate =>
            /\ called' # called
            /\ called'.event \in {"Enter", "blur"}
            /\ editor.editingAssetId # Null
            /\ handlers'[Len(handlers')].asset = editor.editingAssetId
            /\ handlers'[Len(handlers')].value = Trim(editor.editValue)
            /\ handlers'[Len(handlers')].value # <<>>
            /\ ~IsSpace(Head(handlers'[Len(handlers')].value))
    /\ (called' # called /\ called'.event = "Escape") => handlers' = handlers
    /\ (called' # called /\ called'.event \in {"Enter", "blur", "Escape"}) =>
            editor' = NoEdit

\* C33: the inline filename editor issues a custom_filename update only on
\* Enter or blur and only with a non-blank trimmed value; Escape issues none;
\* after any of these the editor state is cleared (no asset in edit mode,
\* empty edit value); at most one asset is in edit mode at any time.
C33_EditorUpdatesOnlyOnEnterOrBlur ==
    /\ [](Cardinality({a \in ingested : editor.editingAssetId = a}) <= 1)
    /\ [][EditorStep]_vars

\* a name typed with blanks around it was committed by blur: the update
\* carries the trimmed name and the editor is closed
C33_Witness ==
    /\ called.event = "blur"
    /\ called.calls # <<>>
    /\ called.calls[1].args[3] = <<"x">>
    /\ editor = NoEdit
    /\ \E i \in 1..Len(handlers) :
        handlers[i].kind = "assetFilename" /\ handlers[i].value = <<"x">>

\* the callbacks handleDragEnd is to invoke for a drop result
DragCalls(r) ==
    IF r.destination = NoDestination THEN <<>>
    ELSE IF r.source.droppableId = r.destination.droppableId
    THEN IF r.source.index = r.destination.index THEN <<>>
         ELSE <<Call("onReorderAsset",
                     <<r.source.droppableId, r.draggableId, r.destination.index>>)>>
    ELSE <<Call("onRegroupAsset",
                <<r.draggableId, r.destination.droppableId, r.destination.index>>)>>

\* the requests the page's handlers send for a sequence of callbacks
RequestsOf(calls) ==
    [i \in 1..Len(calls) |->
        IF calls[i].fn = "onReorderAsset"
        THEN Handler("reorder", calls[i].args[1], calls[i].args[2], calls[i].args[3],
                     <<>>, 0, <<>>)
        ELSE Handler("regroup", calls[i].args[2], calls[i].args[1], calls[i].args[3],
                     <<>>, 0, <<>>)]

\* C34: a drag end triggers at most one callback: none when there is no
\* destination or when source and destination group and index are equal,
\* only reorder(group, asset, destination index) when the group is the same
\* and the index differs, and only regroup(asset, destination group,
\* destination index) when the groups differ.
C34_DragEndTriggersAtMostOneCallback ==
    [][(called' # called /\ called'.event = "dragEnd") =>
            /\ Len(called'.calls) <= 1
            /\ called'.calls = DragCalls(called'.input)
            /\ handlers' = handlers \o RequestsOf(called'.calls)]_vars

\* an asset was dropped on another group and then an asset was dropped at
\* another index of its own group
C34_Witness ==
    /\ called.event = "dragEnd"
    /\ called.calls # <<>>
    /\ called.calls[1].fn = "onReorderAsset"
    /\ Len(handlers) = 2
    /\ handlers[1].kind = "regroup"
    /\ handlers[2].kind = "reorder"

-----------------------------------------------------------------------------
(* The setup form *)

\* handleSubmit has come to its end
Settled == ~setup.loading /\ setup.loadingMessage = "" /\ ~setup.messageInterval

\* what a step of an analysis submission has to satisfy
SubmissionStep ==
    /\ \A i \in 1..Len(handlers) :
        (handlers[i].call = "analyze" /\ handlers[i].pc = "response"
            /\ handlers'[i].pc # "response") =>
            /\ Settled'
            /\ handlers[i].ok =>
                    /\ handlers'[i].pc = "done"
                    /\ analyzedGroups' = handlers[i].data
                    /\ analyzedGroups' # NoSnapshot
                    /\ isSetupCollapsed'
            /\ ~handlers[i].ok =>
                    /\ handlers'[i].pc = "failed"
                    /\ setup'.error # Null
                    /\ analyzedGroups' = analyzedGroups
    /\ Len(handlers') > Len(handlers) =>
            /\ handlers'[Len(handlers')].call = "analyze"
            /\ Trim(setup.folderPath) # <<>>
            /\ handlers'[Len(handlers')].value = Trim(setup.folderPath)

\* C35: every analysis submission that passes validation eventually settles
\* with loading false, the loading message empty and the progress-message
\* timer cancelled; on success the returned snapshot becomes the reviewed
\* snapshot and the setup form collapses, on failure the error is set and
\* the reviewed snapshot is unchanged; a blank folder path never causes an
\* analyze request.
C35_SubmissionSettles ==
    /\ [][SubmissionStep]_vars
    /\ [](~setup.loading => Settled)
    /\ (setup.loading ~> Settled)

\* an analysis of a missing folder failed, and a later analysis succeeded
\* after its progress message had advanced
C35_Witness ==
    /\ Len(handlers) = 2
    /\ handlers[1].call = "analyze" /\ handlers[1].pc = "failed"
    /\ handlers[2].call = "analyze" /\ handlers[2].pc = "done"
    /\ Settled
    /\ setup.messageIndex > 0
    /\ isSetupCollapsed
    /\ analyzedGroups = PairAndSingle

\* C36: a signed-out user who submits any non-blank local folder path
\* always reaches the analyze request: the sign-in rejection occurs only
\* for Google Drive links or folder ids.
C36_SignedOutLocalPathReachesAnalyze ==
    [][(/\ called' # called
        /\ called'.event = "submit"
        /\ ~called'.input.authenticated
        /\ called'.input.folderPath \in LocalPaths) => called'.calls # <<>>]_vars

-----------------------------------------------------------------------------
(* The Google Picker *)

\* an openPicker call that passed the guard is pending
PickerPending == \E i \in 1..Len(picker.calls) : picker.calls[i] \in {"token", "open"}

\* what a step of the picker hook has to satisfy
PickerStep ==
    /\ (called' # called /\ called'.event = "openPicker"
            /\ (~picker.isReady \/ ~picker.apiKey)) =>
            /\ called'.calls = <<>>
            /\ ~picker'.isLoading
    /\ (called' # called /\ called'.event = "pickerCallback") =>
            /\ ~picker'.isLoading
            /\ called'.calls # <<>> =>
                    /\ called'.input.action = "picked"
                    /\ Len(called'.input.docs) >= 1
                    /\ called'.calls[1].fn = "onFolderSelected"
    /\ (called' # called /\ called'.event = "tokenResponse"
            /\ called'.input.outcome # "ok") =>
            /\ ~picker'.isLoading
            /\ called'.calls = <<Call("throw", <<setup'.error>>)>>
            /\ setup'.error # Null
    /\ (\E j \in 1..Len(called'.calls) : called'.calls[j].fn = "onFolderSelected") =>
            called'.event = "pickerCallback"

\* C37: isLoading is true only while an openPicker call that passed the
\* guard (picker ready and api key non-empty) is pending: a call that fails
\* the guard makes no token request and leaves isLoading false; the picker
\* callback for any action and any failure reset isLoading to false, a
\* failure is rethrown to the caller, and onFolderSelected is invoked only
\* for a PICKED action with at least one document.
C37_LoadingOnlyWhilePickerPending ==
    /\ [](picker.isLoading => PickerPending)
    /\ [](picker.isLoading => picker.isReady /\ picker.apiKey)
    /\ [][PickerStep]_vars

\* one call failed at the token request, and the picker of another call
\* reported a cancel
C37_Witness ==
    /\ Len(picker.calls) = 2
    /\ picker.calls[1] = "failed"
    /\ picker.calls[2] = "closed"
    /\ called.event = "pickerCallback"
    /\ called.input.action = "cancel"
    /\ ~picker.isLoading

-----------------------------------------------------------------------------
(* Apply to Selected *)

\* C38: every apply request issued from BulkToolbar carries a value that is
\* valid for the chosen field, for every order of field and value
\* selections: Yes or No when the field is offer and one of ANGLE_OPTIONS
\* when the field is angle; and no request is issued when no group is
\* selected.
C38_ApplyValueValidForField ==
    (called.event = "apply" /\ called.calls # <<>>) =>
        /\ called.input.selectedCount > 0
        /\ called.calls[1].args[1] = "offer" => called.calls[1].args[2] \in {"Yes", "No"}
        /\ called.calls[1].args[1] = "angle" => called.calls[1].args[2] \in ANGLE_OPTIONS


=============================================================================
